---- MODULE Spec2Model ----
(***************************************************************************)
(* TrueTrend: the FetcherManager of backend/app/services/fetchers.         *)
(* A per-platform TTL cache over the platform adapters, the concurrent     *)
(* fetch of all registered platforms, and the merge of the fetched items   *)
(* by normalized keyword.                                                   *)
(*                                                                         *)
(* Time is an integer number of seconds.  A keyword is a sequence of       *)
(* one-character strings.  An item is a record keyword / raw_heat_score /  *)
(* timestamp; the opaque per-platform metadata of an item is left out.     *)
(*                                                                         *)
(* State:                                                                  *)
(*   fetchers      the registered platforms, in the order of the dict      *)
(*   _cache        platform -> cached list of items                        *)
(*   _cache_time   platform -> time the list was stored                    *)
(*   now           the clock (datetime.now())                              *)
(*   source        platform -> the hot list the platform shows             *)
(*   tasks         the fetch_single_platform calls suspended at the await  *)
(*                 of the adapter                                          *)
(*   cycle         the fetch_and_merge call suspended at the gather, if    *)
(*                 any (the aggregation requests are issued one after the  *)
(*                 other; the direct calls run concurrently with them)     *)
(*   last          history: the previous fetch_and_merge and what it       *)
(*                 returned, kept while no other operation has interfered  *)
(*                 (recorded under RepeatSpec only)                        *)
(*   ev            history: what the step just taken called, completed or  *)
(*                 returned                                                *)
(*   request       the call of one of the stateless functions (keyword     *)
(*                 normalization, RealScore, lifecycle segmentation,      *)
(*                 archive statistics) that is about to run, with its      *)
(*                 arguments                                               *)
(*   archive       the GitHubArchiveFetcher: its per-date cache and its    *)
(*                 fetch_day_data calls in flight                          *)
(***************************************************************************)
EXTENDS Integers, Sequences, FiniteSets, TLC

VARIABLES fetchers, _cache, _cache_time, now, source, tasks, cycle, last, ev,
          request, archive

vars == <<fetchers, _cache, _cache_time, now, source, tasks, cycle, last, ev,
          request, archive>>

(***************************************************************************)
(* Bounds of the model.                                                    *)
(***************************************************************************)
MaxTasks == 2
TimeStep == 150
MaxTime == 300

(***************************************************************************)
(* Program constants.                                                      *)
(***************************************************************************)
CACHE_TTL == 300

Platforms == {"weibo", "zhihu"}
(* the limits asked for: shorter than a platform's hot list, and all of it *)
Limits == {1, 2}

(***************************************************************************)
(* Characters, as _normalize_keyword tells them apart.                     *)
(***************************************************************************)
(* A character outside ASCII is written by its code point: U+00C9 and     *)
(* U+00E9 are the letters E and e with an acute accent, U+4E2D is an       *)
(* ideograph of the range 4e00-9fff.                                       *)
Whitespace == {" "}
AsciiUpper == {"A"}
AsciiLower == {"a", "b", "c"}
AsciiDigits == {"1"}
Underscore == {"_"}
OtherUpper == {"U+00C9"}
OtherLower == {"U+00E9"}
CJK == {"U+4E2D"}
(* what \w matches in a str pattern: the Unicode letters and digits and    *)
(* the underscore                                                          *)
WordChars == AsciiUpper \cup AsciiLower \cup AsciiDigits \cup Underscore
             \cup OtherUpper \cup OtherLower \cup CJK

(* str.lower() of one character *)
LowerChar(c) ==
  IF c = "A" THEN "a"
  ELSE IF c = "U+00C9" THEN "U+00E9"
  ELSE c

Range(s) == {s[i] : i \in 1..Len(s)}

Min(a, b) == IF a < b THEN a ELSE b
Max(a, b) == IF a > b THEN a ELSE b

(* Python's s[:n] *)
PySlice(s, n) ==
  IF n >= 0 THEN SubSeq(s, 1, Min(n, Len(s)))
  ELSE SubSeq(s, 1, Max(Len(s) + n, 0))

RECURSIVE LStrip(_)
LStrip(s) ==
  IF s # <<>> /\ Head(s) \in Whitespace THEN LStrip(Tail(s)) ELSE s

RECURSIVE RStrip(_)
RStrip(s) ==
  IF s # <<>> /\ s[Len(s)] \in Whitespace
  THEN RStrip(SubSeq(s, 1, Len(s) - 1)) ELSE s

Strip(s) == RStrip(LStrip(s))

IsKept(c) == c \in WordChars \cup CJK

RemoveSpecial(s) == SelectSeq(s, IsKept)

Lower(s) == [i \in 1..Len(s) |-> LowerChar(s[i])]

_normalize_keyword(keyword) == Lower(RemoveSpecial(Strip(keyword)))

(***************************************************************************)
(* fetch_and_merge, the synchronous part after the gather.                 *)
(* all_data is the sequence of <<platform, items>> in the order of the     *)
(* fetchers dict; keyword_map is the dict in insertion order, one entry    *)
(* per normalized keyword.                                                 *)
(***************************************************************************)
RECURSIVE KeyIndex(_, _, _)
KeyIndex(keyword_map, norm, i) ==
  IF i > Len(keyword_map) THEN 0
  ELSE IF keyword_map[i].norm = norm THEN i
  ELSE KeyIndex(keyword_map, norm, i + 1)

NewEntry(norm, item) ==
  [norm |-> norm,
   keyword |-> item.keyword,
   platforms |-> <<>>,
   raw_heat_scores |-> <<>>,
   total_raw_heat |-> 0,
   first_seen |-> item.timestamp]

DictSet(d, k, v) == [x \in (DOMAIN d) \cup {k} |-> IF x = k THEN v ELSE d[x]]

(* the platform appended without the membership test *)
RecordPlatformAlways(platforms, platform) == Append(platforms, platform)

RecordPlatform(platforms, platform) ==
  IF platform \in Range(platforms) THEN platforms ELSE Append(platforms, platform)

(* the total assigned instead of accumulated *)
RecordHeatAssign(entry, platform, item) ==
  [entry EXCEPT
     !.raw_heat_scores = DictSet(@, platform, item.raw_heat_score),
     !.total_raw_heat = item.raw_heat_score]

RecordHeat(entry, platform, item) ==
  [entry EXCEPT
     !.raw_heat_scores = DictSet(@, platform, item.raw_heat_score),
     !.total_raw_heat = @ + item.raw_heat_score]

FoldItem(keyword_map, platform, item) ==
  LET norm == _normalize_keyword(item.keyword)
      found == KeyIndex(keyword_map, norm, 1)
      km == IF found = 0 THEN Append(keyword_map, NewEntry(norm, item))
            ELSE keyword_map
      i == IF found = 0 THEN Len(km) ELSE found
      e1 == [km[i] EXCEPT !.platforms = RecordPlatform(@, platform)]
  IN [km EXCEPT ![i] = RecordHeat(e1, platform, item)]

RECURSIVE FoldItems(_, _, _)
FoldItems(keyword_map, platform, items) ==
  IF items = <<>> THEN keyword_map
  ELSE FoldItems(FoldItem(keyword_map, platform, Head(items)), platform, Tail(items))

RECURSIVE FoldPlatforms(_, _)
FoldPlatforms(keyword_map, all_data) ==
  IF all_data = <<>> THEN keyword_map
  ELSE FoldPlatforms(FoldItems(keyword_map, Head(all_data)[1], Head(all_data)[2]),
                     Tail(all_data))

MergedRecord(data, t) ==
  [keyword |-> data.keyword,
   platforms |-> data.platforms,
   platform_count |-> Len(data.platforms),
   raw_heat_score |-> data.total_raw_heat,
   heat_by_platform |-> data.raw_heat_scores,
   first_seen |-> data.first_seen,
   last_seen |-> t]

(* list.sort(key=raw_heat_score, reverse=True): stable, descending *)
SortsBefore(x, y) == x.raw_heat_score >= y.raw_heat_score

RECURSIVE InsertSorted(_, _)
InsertSorted(sorted, x) ==
  IF sorted = <<>> THEN <<x>>
  ELSE IF SortsBefore(Head(sorted), x) THEN <<Head(sorted)>> \o InsertSorted(Tail(sorted), x)
  ELSE <<x>> \o sorted

RECURSIVE SortMerged(_)
SortMerged(merged) ==
  IF merged = <<>> THEN <<>>
  ELSE InsertSorted(SortMerged(SubSeq(merged, 1, Len(merged) - 1)), merged[Len(merged)])

Merge(all_data, t) ==
  LET keyword_map == FoldPlatforms(<<>>, all_data)
  IN SortMerged([i \in 1..Len(keyword_map) |-> MergedRecord(keyword_map[i], t)])

(***************************************************************************)
(* What the platforms currently show.  A hot list is a sequence of         *)
(* <<keyword, hot_value>>; a platform adapter turns its first `limit`      *)
(* entries into items stamped with the time of the fetch.                  *)
(***************************************************************************)
KwAb == <<"A", "b">>
KwSpaced == <<" ", "a", "!", "b">>
KwC == <<"c">>

HotList(platform) ==
  IF platform = "weibo" THEN << <<KwAb, 10>>, <<KwSpaced, 5>> >>
  ELSE << <<KwC, 10>>, <<KwAb, 5>> >>

StandardItem(hot, t) ==
  [keyword |-> hot[1], raw_heat_score |-> hot[2], timestamp |-> t]

(* WeiboFetcher / ZhihuFetcher / BilibiliFetcher.fetch_trending, success path *)
fetch_trending(items, limit, t) ==
  LET cut == PySlice(items, limit)
  IN [i \in 1..Len(cut) |-> StandardItem(cut[i], t)]

(***************************************************************************)
(* FetcherManager                                                          *)
(***************************************************************************)
EmptyDict == [p \in {} |-> 0]

DictPop(d, k) == [x \in (DOMAIN d) \ {k} |-> d[x]]

None == [op |-> "none"]
Idle == [pc |-> "idle"]

(* GitHubArchiveFetcher.__init__: an empty per-date cache, no call in flight *)
MaxDayCalls == 2
NoArchive == [_cache |-> EmptyDict, calls |-> [c \in 1..MaxDayCalls |-> Idle]]

(* an entry exactly CACHE_TTL old still counted as valid *)
IsCacheValidInclusive(platform) ==
  IF platform \notin DOMAIN _cache_time THEN FALSE
  ELSE (now - _cache_time[platform]) <= CACHE_TTL

_is_cache_valid(platform) ==
  IF platform \notin DOMAIN _cache_time THEN FALSE
  ELSE (now - _cache_time[platform]) < CACHE_TTL

(* the cached list cut one item short *)
CacheHitOffByOne(platform, limit) ==
  PySlice(IF platform \in DOMAIN _cache THEN _cache[platform] ELSE <<>>, limit - 1)

CacheHit(platform, limit) ==
  PySlice(IF platform \in DOMAIN _cache THEN _cache[platform] ELSE <<>>, limit)

(* the call without the test of the registration *)
CallStartNoCheck(platform, limit, use_cache) ==
  LET base == [platform |-> platform, limit |-> limit, use_cache |-> use_cache]
  IN IF use_cache /\ _is_cache_valid(platform)
     THEN base @@ [served |-> "hit", result |-> CacheHit(platform, limit),
                   captured |-> _cache_time[platform]]
     ELSE base @@ [served |-> "await", result |-> <<>>, captured |-> 0]

(* fetch_single_platform up to its return or its first suspension: what    *)
(* the call does with the cache.  served is "value_error", "hit" or "await" *)
CallStart(platform, limit, use_cache) ==
  LET base == [platform |-> platform, limit |-> limit, use_cache |-> use_cache]
  IN IF platform \notin Range(fetchers)
     THEN base @@ [served |-> "value_error", result |-> <<>>, captured |-> 0]
     ELSE IF use_cache /\ _is_cache_valid(platform)
     THEN base @@ [served |-> "hit", result |-> CacheHit(platform, limit),
                   captured |-> _cache_time[platform]]
     ELSE base @@ [served |-> "await", result |-> <<>>, captured |-> 0]

FreeTasks == {t \in 1..MaxTasks : tasks[t].pc = "idle"}

RECURSIVE SetToSeq(_)
SetToSeq(S) ==
  IF S = {} THEN <<>>
  ELSE LET m == CHOOSE x \in S : \A y \in S : x <= y
       IN <<m>> \o SetToSeq(S \ {m})

Init ==
  /\ fetchers = <<>>
  /\ _cache = EmptyDict
  /\ _cache_time = EmptyDict
  /\ now = 0
  /\ source = [platform \in Platforms |-> HotList(platform)]
  /\ tasks = [t \in 1..MaxTasks |-> Idle]
  /\ cycle = Idle
  /\ last = None
  /\ ev = None
  /\ request = None
  /\ archive = NoArchive

(* another operation interferes with the fetch_and_merge in flight *)
Disturbed ==
  IF cycle.pc = "gathering" THEN [cycle EXCEPT !.undisturbed = FALSE] ELSE cycle

(* self.fetchers[name] = fetcher: a new key goes to the end of the dict *)
register_fetcher(name) ==
  /\ name \notin Range(fetchers)
  /\ fetchers' = Append(fetchers, name)
  /\ cycle' = Disturbed
  /\ last' = None
  /\ ev' = None
  /\ UNCHANGED <<_cache, _cache_time, now, source, tasks, request, archive>>

(* a direct call of fetch_single_platform, as the /live/{platform} route makes *)
fetch_single_platform(platform, limit, use_cache) ==
  LET call == CallStart(platform, limit, use_cache)
  IN /\ IF call.served = "await"
        THEN /\ FreeTasks # {}
             /\ LET t == CHOOSE x \in FreeTasks : \A y \in FreeTasks : x <= y
                IN tasks' = [tasks EXCEPT ![t] =
                     [pc |-> "awaiting", platform |-> platform, limit |-> limit,
                      slot |-> 0, overtaken |-> FALSE]]
        ELSE tasks' = tasks
     /\ ev' = [op |-> "call", direct |-> TRUE, calls |-> <<call>>]
     /\ UNCHANGED <<fetchers, _cache, _cache_time, now, source, cycle, last, request, archive>>

(* fetch_and_merge -> fetch_all_platforms up to the await of the gather:   *)
(* one fetch_single_platform per registered platform                       *)
fetch_and_merge(limit_per_platform, use_cache) ==
  LET calls == [i \in 1..Len(fetchers) |->
                  CallStart(fetchers[i], limit_per_platform, use_cache)]
      waiting == {i \in 1..Len(fetchers) : calls[i].served = "await"}
      free == SetToSeq(FreeTasks)
      order == SetToSeq(waiting)
      TaskOf(i) == free[CHOOSE k \in 1..Len(order) : order[k] = i]
  IN /\ cycle.pc = "idle"
     /\ Cardinality(waiting) <= Len(free)
     /\ tasks' = [t \in 1..MaxTasks |->
          IF \E i \in waiting : TaskOf(i) = t
          THEN LET i == CHOOSE j \in waiting : TaskOf(j) = t
               IN [pc |-> "awaiting", platform |-> fetchers[i],
                   limit |-> limit_per_platform,
                   slot |-> i, overtaken |-> FALSE]
          ELSE tasks[t]]
     /\ cycle' =
          [pc |-> "gathering",
           limit_per_platform |-> limit_per_platform, use_cache |-> use_cache,
           platforms |-> fetchers,
           slots |-> [i \in 1..Len(fetchers) |->
                        [outcome |-> IF calls[i].served = "hit" THEN "hit" ELSE "pending",
                         result |-> calls[i].result,
                         captured |-> calls[i].captured]],
           startTime |-> now,
           undisturbed |-> TRUE]
     /\ ev' = [op |-> "call", direct |-> FALSE, calls |-> calls]
     /\ UNCHANGED <<fetchers, _cache, _cache_time, now, source, last, request, archive>>

(* the completion of awaiting call t, seen by the other calls in flight *)
AfterCompletion(t, wrote, slotValue) ==
  /\ tasks' = [u \in 1..MaxTasks |->
       IF u = t THEN Idle
       ELSE IF wrote /\ tasks[u].pc \in {"awaiting", "hung"}
               /\ tasks[u].platform = tasks[t].platform
       THEN [tasks[u] EXCEPT !.overtaken = TRUE]
       ELSE tasks[u]]
  /\ cycle' = IF tasks[t].slot # 0
              THEN [cycle EXCEPT !.slots[tasks[t].slot] = slotValue]
              ELSE IF wrote THEN Disturbed ELSE cycle
  /\ last' = IF wrote /\ tasks[t].slot = 0 THEN None ELSE last

CachePayloadWrite(cache, platform, data) == DictSet(cache, platform, data)

(* the time stored only when the platform has none yet (setdefault) *)
CacheTimeSetDefault(cache_time, platform, t) ==
  IF platform \in DOMAIN cache_time THEN cache_time ELSE DictSet(cache_time, platform, t)

CacheTimeWrite(cache_time, platform, t) == DictSet(cache_time, platform, t)

(* the adapter of an awaiting call returns a list: the platform's hot list, *)
(* or, when its request failed, the empty list of its except branch; the   *)
(* manager stores the list and the time and returns the list               *)
AdapterReturn(t, failed) ==
  /\ tasks[t].pc = "awaiting"
  /\ LET platform == tasks[t].platform
         data == IF failed THEN <<>>
                 ELSE fetch_trending(source[platform], tasks[t].limit, now)
         outcome == IF failed THEN "empty" ELSE "ok"
     IN /\ _cache' = CachePayloadWrite(_cache, platform, data)
        /\ _cache_time' = CacheTimeWrite(_cache_time, platform, now)
        /\ AfterCompletion(t, TRUE,
             [outcome |-> outcome, result |-> data, captured |-> now])
        /\ ev' = [op |-> "complete", platform |-> platform,
                  limit |-> tasks[t].limit, direct |-> tasks[t].slot = 0,
                  outcome |-> outcome, result |-> data,
                  overtaken |-> tasks[t].overtaken]
  /\ UNCHANGED <<fetchers, now, source, request, archive>>

(* the adapter of an awaiting call raises: the exception leaves            *)
(* fetch_single_platform at the await, before the cache is written         *)
AdapterRaise(t) ==
  /\ tasks[t].pc = "awaiting"
  /\ AfterCompletion(t, FALSE, [outcome |-> "raise", result |-> <<>>, captured |-> 0])
  /\ ev' = [op |-> "complete", platform |-> tasks[t].platform,
            limit |-> tasks[t].limit, direct |-> tasks[t].slot = 0,
            outcome |-> "raise", result |-> <<>>,
            overtaken |-> tasks[t].overtaken]
  /\ UNCHANGED <<fetchers, _cache, _cache_time, now, source, request, archive>>

(* the adapter of an awaiting call never completes *)
AdapterHang(t) ==
  /\ tasks[t].pc = "awaiting"
  /\ tasks' = [tasks EXCEPT ![t] = [@ EXCEPT !.pc = "hung"]]
  /\ ev' = None
  /\ UNCHANGED <<fetchers, _cache, _cache_time, now, source, cycle, last, request, archive>>

(* one slot of the gather result as fetch_all_platforms stores it *)
GatherSlot(slot) == IF slot.outcome = "raise" THEN <<>> ELSE slot.result

(* one failed platform empties the result of every platform *)
FetchAllDataAbort(platforms, slots) ==
  [i \in 1..Len(platforms) |->
     <<platforms[i],
       IF \E j \in 1..Len(slots) : slots[j].outcome = "raise"
       THEN <<>> ELSE slots[i].result>>]

FetchAllData(platforms, slots) ==
  [i \in 1..Len(platforms) |-> <<platforms[i], GatherSlot(slots[i])>>]

(* the gather completes; fetch_all_platforms and fetch_and_merge run to    *)
(* their return without a further suspension.  keep: whether the history   *)
(* variable last records the call                                          *)
FinishCycle(keep) ==
  /\ cycle.pc = "gathering"
  /\ \A i \in 1..Len(cycle.slots) : cycle.slots[i].outcome # "pending"
  /\ LET all_data == FetchAllData(cycle.platforms, cycle.slots)
         returned == [op |-> "merged",
                      limit_per_platform |-> cycle.limit_per_platform,
                      use_cache |-> cycle.use_cache,
                      platforms |-> cycle.platforms,
                      slots |-> cycle.slots,
                      startTime |-> cycle.startTime,
                      all_data |-> all_data,
                      merged |-> Merge(all_data, now)]
     IN /\ ev' = returned @@ [previous |-> last]
        /\ last' = IF keep /\ cycle.undisturbed THEN returned ELSE None
  /\ cycle' = Idle
  /\ UNCHANGED <<fetchers, _cache, _cache_time, now, source, tasks, request, archive>>

(* the payload dropped and the capture time kept *)
ClearCachePayloadOnly(platform) ==
  /\ IF platform # ""
     THEN _cache' = DictPop(_cache, platform)
     ELSE _cache' = EmptyDict
  /\ cycle' = Disturbed
  /\ last' = None
  /\ ev' = [op |-> "clear_cache", platform |-> platform]
  /\ UNCHANGED <<fetchers, _cache_time, now, source, tasks, request, archive>>

clear_cache(platform) ==
  /\ IF platform # ""
     THEN /\ _cache' = DictPop(_cache, platform)
          /\ _cache_time' = DictPop(_cache_time, platform)
     ELSE /\ _cache' = EmptyDict
          /\ _cache_time' = EmptyDict
  /\ cycle' = Disturbed
  /\ last' = None
  /\ ev' = [op |-> "clear_cache", platform |-> platform]
  /\ UNCHANGED <<fetchers, now, source, tasks, request, archive>>

Tick ==
  /\ now + TimeStep <= MaxTime
  /\ now' = now + TimeStep
  /\ ev' = None
  /\ UNCHANGED <<fetchers, _cache, _cache_time, source, tasks, cycle, last, request, archive>>

(* the direct calls of fetch_single_platform against the cache *)
SingleNext ==
  \/ \E name \in Platforms : register_fetcher(name)
  \/ \E platform \in Platforms, limit \in Limits, use_cache \in BOOLEAN :
        fetch_single_platform(platform, limit, use_cache)
  \/ \E t \in 1..MaxTasks, failed \in BOOLEAN : AdapterReturn(t, failed)
  \/ \E t \in 1..MaxTasks : AdapterRaise(t)
  \/ \E platform \in Platforms \cup {""} : clear_cache(platform)
  \/ Tick

SingleSpec == Init /\ [][SingleNext]_vars

(* the aggregation requests *)
CycleNext ==
  \/ \E name \in Platforms : register_fetcher(name)
  \/ \E limit \in Limits, use_cache \in BOOLEAN : fetch_and_merge(limit, use_cache)
  \/ \E t \in 1..MaxTasks, failed \in BOOLEAN : AdapterReturn(t, failed)
  \/ \E t \in 1..MaxTasks : AdapterRaise(t)
  \/ \E t \in 1..MaxTasks : AdapterHang(t)
  \/ FinishCycle(FALSE)
  \/ Tick

CycleSpec == Init /\ [][CycleNext]_vars

(* aggregation requests issued one after the other over adapters that      *)
(* succeed, each call recorded for the next                                *)
RepeatNext ==
  \/ \E name \in Platforms : register_fetcher(name)
  \/ \E limit \in Limits, use_cache \in BOOLEAN : fetch_and_merge(limit, use_cache)
  \/ \E t \in 1..MaxTasks : AdapterReturn(t, FALSE)
  \/ FinishCycle(TRUE)
  \/ Tick

RepeatSpec == Init /\ [][RepeatNext]_vars

(* the adapters that complete and the event loop are scheduled fairly; an  *)
(* adapter may still hang                                                  *)
FairCycleSpec ==
  /\ CycleSpec
  /\ \A t \in 1..MaxTasks :
       WF_vars(AdapterRaise(t) \/ \E failed \in BOOLEAN : AdapterReturn(t, failed))
  /\ WF_vars(FinishCycle(FALSE))

(***************************************************************************)
(* The merge on its own: the gather of a fetch_and_merge over any          *)
(* registered platforms has completed with any lists of items, each list   *)
(* stamped with the time its adapter produced it.                          *)
(***************************************************************************)
MaxItems == 2

Keywords == {KwAb, KwSpaced, KwC}
Heats == {5, 10}
Times == {0, TimeStep}

RECURSIVE SeqsUpTo(_, _)
SeqsUpTo(S, n) ==
  IF n = 0 THEN {<<>>}
  ELSE LET shorter == SeqsUpTo(S, n - 1)
       IN shorter \cup {Append(q, x) : q \in {r \in shorter : Len(r) = n - 1}, x \in S}

PlatformOrders == {q \in SeqsUpTo(Platforms, Cardinality(Platforms)) :
                     \A i, j \in 1..Len(q) : i # j => q[i] # q[j]}

MergeInit ==
  /\ fetchers \in PlatformOrders
  /\ tasks = [t \in 1..MaxTasks |-> Idle]
  /\ last = None
  /\ ev = None
  /\ request = None
  /\ archive = NoArchive
  /\ \E hot \in [Range(fetchers) -> SeqsUpTo(Keywords \X Heats, MaxItems)],
        at \in [Range(fetchers) -> Times] :
       LET Items(platform) == fetch_trending(hot[platform], MaxItems, at[platform])
       IN /\ source = [platform \in Platforms |->
                       IF platform \in Range(fetchers) THEN hot[platform] ELSE <<>>]
          /\ _cache = [platform \in Range(fetchers) |-> Items(platform)]
          /\ _cache_time = at
          /\ now = IF \E platform \in Range(fetchers) : at[platform] # 0
                   THEN TimeStep ELSE 0
          /\ cycle = [pc |-> "gathering",
                      limit_per_platform |-> MaxItems, use_cache |-> FALSE,
                      platforms |-> fetchers,
                      slots |-> [i \in 1..Len(fetchers) |->
                                   [outcome |-> "ok",
                                    result |-> Items(fetchers[i]),
                                    captured |-> at[fetchers[i]]]],
                      startTime |-> 0,
                      undisturbed |-> TRUE]

MergeNext == FinishCycle(FALSE)

MergeSpec == MergeInit /\ [][MergeNext]_vars

(***************************************************************************)
(* _normalize_keyword on its own: called with any keyword over the         *)
(* characters above.                                                       *)
(***************************************************************************)
MaxKeywordLen == 3

NormChars == Whitespace \cup {"!"} \cup WordChars

ManagerIdle ==
  /\ fetchers = <<>>
  /\ _cache = EmptyDict
  /\ _cache_time = EmptyDict
  /\ now = 0
  /\ source = [platform \in Platforms |-> HotList(platform)]
  /\ tasks = [t \in 1..MaxTasks |-> Idle]
  /\ cycle = Idle
  /\ last = None
  /\ ev = None
  /\ archive = NoArchive

manager == <<fetchers, _cache, _cache_time, now, source, tasks, cycle, last, archive>>

NormInit ==
  /\ ManagerIdle
  /\ \E keyword \in SeqsUpTo(NormChars, MaxKeywordLen) :
       request = [op |-> "_normalize_keyword", keyword |-> keyword]

NormalizeCall ==
  /\ request.op = "_normalize_keyword"
  /\ ev' = [op |-> "_normalize_keyword", keyword |-> request.keyword,
            normalized |-> _normalize_keyword(request.keyword)]
  /\ request' = None
  /\ UNCHANGED manager

NormNext == NormalizeCall

NormSpec == NormInit /\ [][NormNext]_vars

(***************************************************************************)
(* RealScoreCalculator (backend/app/services/real_score.py).               *)
(*                                                                         *)
(* A Python value is a record with its type in t: num (int or float, here  *)
(* an integer n), bool b, str (s is the sequence of its characters),       *)
(* isostr (a str that datetime.fromisoformat parses, h is the instant it   *)
(* names in half days), none.  A trend is a function from the keys it has  *)
(* to their values.  A call either returns a value or raises.              *)
(*                                                                         *)
(* Numbers: a platform multiplier is an exact fraction num/den, a          *)
(* longevity factor is in thousandths, a marketing penalty in tenths, a    *)
(* RealScore (rounded to 2 decimals) in hundredths.                        *)
(***************************************************************************)
Num(n) == [t |-> "num", n |-> n]
Bool(b) == [t |-> "bool", b |-> b]
Str(s) == [t |-> "str", s |-> s]
IsoStr(h) == [t |-> "isostr", h |-> h]
NoneValue == [t |-> "none"]

IsStr(x) == x.t \in {"str", "isostr"}

(* the truth value of x in an if *)
Truthy(x) ==
  CASE x.t = "bool" -> x.b
    [] x.t = "num" -> x.n # 0
    [] x.t = "str" -> x.s # <<>>
    [] x.t = "isostr" -> TRUE
    [] x.t = "none" -> FALSE

Return(v) == [raised |-> FALSE, value |-> v]
Raise(e) == [raised |-> TRUE, error |-> e]

(* trend.get(key, default) *)
Get(trend, key, default) == IF key \in DOMAIN trend THEN trend[key] ELSE default

Rat(n, d) == [num |-> n, den |-> d]
RatLeq(a, b) == a.num * b.den <= b.num * a.den
RatMin(a, b) == IF RatLeq(a, b) THEN a ELSE b

RECURSIVE IntPow(_, _)
IntPow(b, k) == IF k = 0 THEN 1 ELSE b * IntPow(b, k - 1)

(* 1.5 ** k *)
Pow15(k) == Rat(IntPow(3, k), IntPow(2, k))

(* the multiplier without its upper limit *)
MultiplierUncapped(platform_count) ==
  IF platform_count.t # "num" THEN Raise("TypeError")
  ELSE IF platform_count.n <= 0 THEN Return(Rat(0, 1))
  ELSE IF platform_count.n = 1 THEN Return(Rat(3, 10))
  ELSE IF platform_count.n = 2 THEN Return(Rat(1, 1))
  ELSE Return(Pow15(platform_count.n - 2))

(* None <= 0 and 'x' <= 0 raise TypeError *)
calculate_platform_multiplier(platform_count) ==
  IF platform_count.t # "num" THEN Raise("TypeError")
  ELSE IF platform_count.n <= 0 THEN Return(Rat(0, 1))
  ELSE IF platform_count.n = 1 THEN Return(Rat(3, 10))
  ELSE IF platform_count.n = 2 THEN Return(Rat(1, 1))
  ELSE Return(RatMin(Pow15(platform_count.n - 2), Rat(5, 1)))

(* datetime.fromisoformat: TypeError unless the argument is a str,         *)
(* ValueError when the str is not an ISO timestamp                         *)
fromisoformat(x) ==
  IF ~IsStr(x) THEN Raise("TypeError")
  ELSE IF x.t = "isostr" THEN Return(x.h)
  ELSE Raise("ValueError")

HalfDaysPerDay == 2

(* math.log2(m) in thousandths; ValueError unless m > 0 *)
Log2Milli(m) ==
  CASE m = 1 -> 0
    [] m = 2 -> 1000
    [] m = 3 -> 1585
    [] m = 4 -> 2000
    [] m = 5 -> 2322
    [] m = 6 -> 2585
    [] m = 7 -> 2807
    [] m = 8 -> 3000
    [] m = 9 -> 3170
    [] m = 10 -> 3322
    [] m = 11 -> 3459
    [] m = 12 -> 3585

log2(m) == IF m <= 0 THEN Raise("ValueError") ELSE Return(Log2Milli(m))

(* the factor an unreadable timestamp gives, 1.0 *)
NeutralLongevity == 1000

(* an unreadable timestamp gives the factor 0.0 *)
LongevityZeroOnError(first_seen, last_seen) ==
  LET first_dt == fromisoformat(first_seen)
      last_dt == fromisoformat(last_seen)
  IN IF first_dt.raised \/ last_dt.raised THEN 0
     ELSE LET days == ((last_dt.value - first_dt.value) \div HalfDaysPerDay) + 1
              l == log2(days + 1)
          IN IF l.raised THEN NeutralLongevity ELSE l.value

(* timedelta.days is the floor of the difference in days; the except       *)
(* clause catches ValueError and TypeError                                 *)
calculate_longevity_factor(first_seen, last_seen) ==
  LET first_dt == fromisoformat(first_seen)
      last_dt == fromisoformat(last_seen)
  IN IF first_dt.raised \/ last_dt.raised THEN NeutralLongevity
     ELSE LET days == ((last_dt.value - first_dt.value) \div HalfDaysPerDay) + 1
              l == log2(days + 1)
          IN IF l.raised THEN NeutralLongevity ELSE l.value

StartsWith(s, p) == Len(p) <= Len(s) /\ SubSeq(s, 1, Len(p)) = p
EndsWith(s, p) == Len(p) <= Len(s) /\ SubSeq(s, Len(s) - Len(p) + 1, Len(s)) = p
Contains(s, p) == \E i \in 0..(Len(s) - Len(p)) : SubSeq(s, i + 1, i + Len(p)) = p

(* three of the MARKETING_PATTERNS: ^618.* , .*618$ and .*U+65B0 U+54C1.*  *)
Kw618 == <<"6", "1", "8">>
KwNewProduct == <<"U+65B0", "U+54C1">>
MARKETING_PATTERNS ==
  {[kind |-> "prefix", text |-> Kw618], [kind |-> "suffix", text |-> Kw618],
   [kind |-> "contains", text |-> KwNewProduct]}

(* re.match of a pattern compiled with re.IGNORECASE *)
PatternMatch(pattern, s) ==
  CASE pattern.kind = "prefix" -> StartsWith(Lower(s), Lower(pattern.text))
    [] pattern.kind = "suffix" -> EndsWith(Lower(s), Lower(pattern.text))
    [] pattern.kind = "contains" -> Contains(Lower(s), Lower(pattern.text))

(* in tenths; pattern.match(None) raises TypeError *)
calculate_marketing_penalty(keyword, is_marketing_flag) ==
  IF Truthy(is_marketing_flag) THEN Return(8)
  ELSE IF ~IsStr(keyword) THEN Raise("TypeError")
  ELSE IF keyword.t = "str" /\ \E pattern \in MARKETING_PATTERNS : PatternMatch(pattern, keyword.s)
  THEN Return(5)
  ELSE Return(0)

(* round-half-even of n/d, d > 0, n >= 0 *)
RoundHalfEven(n, d) ==
  LET q == n \div d
      r == n % d
  IN IF 2 * r < d THEN q
     ELSE IF 2 * r > d THEN q + 1
     ELSE IF q % 2 = 0 THEN q ELSE q + 1

(* base_heat * M * L * (1 - P), rounded to 2 decimals, in hundredths *)
Product(base_heat, multiplier, longevity, penalty) ==
  RoundHalfEven(base_heat * multiplier.num * longevity * (10 - penalty),
                multiplier.den * 100)

DefaultKeyword == Str(<<>>)
DefaultHeat == Num(0)
DefaultCount == Num(1)
DefaultSeen == Str(<<>>)
DefaultFlag == Bool(FALSE)

(* the score with the longevity factor left out *)
RealScoreNoLongevity(trend_data) ==
  LET base_heat == Get(trend_data, "raw_heat_score", DefaultHeat)
      m == calculate_platform_multiplier(Get(trend_data, "platform_count", DefaultCount))
      p == calculate_marketing_penalty(Get(trend_data, "keyword", DefaultKeyword),
                                       Get(trend_data, "is_marketing", DefaultFlag))
  IN IF m.raised THEN m
     ELSE IF p.raised THEN p
     ELSE IF base_heat.t # "num" THEN Raise("TypeError")
     ELSE Return(Product(base_heat.n, m.value, NeutralLongevity, p.value))

(* None * 0.3 and 'x' * 0.3 raise TypeError *)
calculate_real_score(trend_data) ==
  LET base_heat == Get(trend_data, "raw_heat_score", DefaultHeat)
      m == calculate_platform_multiplier(Get(trend_data, "platform_count", DefaultCount))
      l == calculate_longevity_factor(Get(trend_data, "first_seen", DefaultSeen),
                                      Get(trend_data, "last_seen", DefaultSeen))
      p == calculate_marketing_penalty(Get(trend_data, "keyword", DefaultKeyword),
                                       Get(trend_data, "is_marketing", DefaultFlag))
  IN IF m.raised THEN m
     ELSE IF p.raised THEN p
     ELSE IF base_heat.t # "num" THEN Raise("TypeError")
     ELSE Return(Product(base_heat.n, m.value, l, p.value))


(* trend_copy = trend.copy(); trend_copy[...] = ...: the trend written     *)
(* into, not a copy of it.  The pair is the input trend after the          *)
(* statements and the trend appended to processed                          *)
StoreScoreInPlace(trend, real_score, score_breakdown) ==
  LET written == DictSet(DictSet(trend, "real_score", real_score),
                         "score_breakdown", score_breakdown)
  IN <<written, written>>

StoreScore(trend, real_score, score_breakdown) ==
  LET trend_copy == trend
  IN <<trend, DictSet(DictSet(trend_copy, "real_score", real_score),
                      "score_breakdown", score_breakdown)>>

score_breakdown(trend) ==
  [base_heat |-> Get(trend, "raw_heat_score", DefaultHeat),
   platform_multiplier |->
     calculate_platform_multiplier(Get(trend, "platform_count", DefaultCount)).value,
   longevity_factor |->
     calculate_longevity_factor(Get(trend, "first_seen", DefaultSeen),
                                Get(trend, "last_seen", DefaultSeen)),
   marketing_penalty |->
     calculate_marketing_penalty(Get(trend, "keyword", DefaultKeyword),
                                 Get(trend, "is_marketing", DefaultFlag)).value]

ScoreSortsBefore(x, y) == x.real_score >= y.real_score

RECURSIVE InsertByScore(_, _)
InsertByScore(sorted, x) ==
  IF sorted = <<>> THEN <<x>>
  ELSE IF ScoreSortsBefore(Head(sorted), x)
  THEN <<Head(sorted)>> \o InsertByScore(Tail(sorted), x)
  ELSE <<x>> \o sorted

(* processed.sort(key=real_score, reverse=True): stable *)
RECURSIVE SortProcessed(_)
SortProcessed(processed) ==
  IF processed = <<>> THEN <<>>
  ELSE InsertByScore(SortProcessed(SubSeq(processed, 1, Len(processed) - 1)),
                     processed[Len(processed)])

(* the loop of process_all_trends from trend i on; an exception of         *)
(* calculate_real_score leaves the loop and the function                   *)
RECURSIVE ProcessFrom(_, _, _)
ProcessFrom(trends, i, processed) ==
  IF i > Len(trends)
  THEN [raised |-> FALSE, trends |-> trends, processed |-> processed]
  ELSE LET real_score == calculate_real_score(trends[i])
       IN IF real_score.raised
          THEN [raised |-> TRUE, trends |-> trends, processed |-> <<>>]
          ELSE LET stored == StoreScore(trends[i], real_score.value,
                                        score_breakdown(trends[i]))
               IN ProcessFrom([trends EXCEPT ![i] = stored[1]], i + 1,
                              Append(processed, stored[2]))

process_all_trends(trends) ==
  LET looped == ProcessFrom(trends, 1, <<>>)
  IN [looped EXCEPT !.processed = SortProcessed(looped.processed)]

(***************************************************************************)
(* The functions of the calculator called one at a time.                   *)
(***************************************************************************)
MaxCount == 6
MaxHalfDays == 14

Counts == (-1)..MaxCount
Garbage == Str(<<"x">>)
TimeArgs == {IsoStr(h) : h \in 0..MaxHalfDays} \cup {Str(<<>>), Garbage, NoneValue, Num(1)}

Absent == [t |-> "absent"]
TrendKeys == {"keyword", "raw_heat_score", "platform_count", "first_seen",
              "last_seen", "is_marketing"}

(* the trend that has the keys with a value in f *)
TrendOf(f) == [k \in {key \in TrendKeys : f[key].t # "absent"} |-> f[k]]

ScoreKeywords == {Str(<<"a">>), Str(Kw618 \o <<"a">>), NoneValue, Absent}
ScoreHeats == {Num(10), Num(7), NoneValue, Garbage, Absent}
ScoreCounts == {Num(1), Num(2), Num(3), NoneValue, Absent}
ScoreFirstSeen == {IsoStr(0), Str(<<>>), Garbage, NoneValue, Num(1), Absent}
ScoreLastSeen == {IsoStr(0), IsoStr(2), IsoStr(6), Str(<<>>), NoneValue, Absent}
ScoreFlags == {Bool(TRUE), Bool(FALSE), Absent}

ScoreTrends ==
  {TrendOf([keyword |-> k, raw_heat_score |-> h, platform_count |-> c,
            first_seen |-> f, last_seen |-> l, is_marketing |-> m]) :
     k \in ScoreKeywords, h \in ScoreHeats, c \in ScoreCounts,
     f \in ScoreFirstSeen, l \in ScoreLastSeen, m \in ScoreFlags}

ScoreInit ==
  /\ ManagerIdle
  /\ \/ \E n \in Counts :
          request = [op |-> "calculate_platform_multiplier", platform_count |-> Num(n)]
     \/ \E first_seen \in TimeArgs, last_seen \in TimeArgs :
          request = [op |-> "calculate_longevity_factor",
                     first_seen |-> first_seen, last_seen |-> last_seen]
     \/ \E trend \in ScoreTrends :
          request = [op |-> "calculate_real_score", trend_data |-> trend]

CalculatePlatformMultiplier ==
  /\ request.op = "calculate_platform_multiplier"
  /\ ev' = [op |-> "calculate_platform_multiplier",
            platform_count |-> request.platform_count,
            result |-> calculate_platform_multiplier(request.platform_count)]
  /\ request' = None
  /\ UNCHANGED manager

CalculateLongevityFactor ==
  /\ request.op = "calculate_longevity_factor"
  /\ ev' = [op |-> "calculate_longevity_factor",
            first_seen |-> request.first_seen, last_seen |-> request.last_seen,
            result |-> calculate_longevity_factor(request.first_seen, request.last_seen)]
  /\ request' = None
  /\ UNCHANGED manager

CalculateRealScore ==
  /\ request.op = "calculate_real_score"
  /\ ev' = [op |-> "calculate_real_score", trend_data |-> request.trend_data,
            result |-> calculate_real_score(request.trend_data)]
  /\ request' = None
  /\ UNCHANGED manager

ScoreNext ==
  \/ CalculatePlatformMultiplier
  \/ CalculateLongevityFactor
  \/ CalculateRealScore

ScoreSpec == ScoreInit /\ [][ScoreNext]_vars

(***************************************************************************)
(* process_all_trends called, and called again, on a list of trends.       *)
(***************************************************************************)
MaxTrends == 2

BatchKeywords == {Str(<<"a">>), Str(Kw618 \o <<"a">>), NoneValue}
BatchHeats == {Num(10), Num(7), NoneValue}
BatchCounts == {Num(1), Num(2), NoneValue}
BatchLastSeen == {IsoStr(2), Str(<<>>)}

BatchTrends ==
  {TrendOf([keyword |-> k, raw_heat_score |-> h, platform_count |-> c,
            first_seen |-> IsoStr(0), last_seen |-> l, is_marketing |-> Absent]) :
     k \in BatchKeywords, h \in BatchHeats, c \in BatchCounts, l \in BatchLastSeen}

BatchInit ==
  /\ ManagerIdle
  /\ \E trends \in SeqsUpTo(BatchTrends, MaxTrends) :
       request = [op |-> "process_all_trends", trends |-> trends]

(* the caller keeps its list and may pass it again *)
ProcessAllTrends ==
  /\ request.op = "process_all_trends"
  /\ LET returned == process_all_trends(request.trends)
     IN /\ ev' = [op |-> "process_all_trends", trends |-> request.trends,
                  trends_after |-> returned.trends,
                  raised |-> returned.raised, processed |-> returned.processed,
                  repeated |-> ev.op = "process_all_trends",
                  previous |-> IF ev.op = "process_all_trends" THEN ev.processed ELSE <<>>]
        /\ request' = [request EXCEPT !.trends = returned.trends]
  /\ UNCHANGED manager

BatchNext == ProcessAllTrends

BatchSpec == BatchInit /\ [][BatchNext]_vars

(***************************************************************************)
(* The lifecycle segmentation of get_keyword_lifecycle                     *)
(* (backend/app/routers/trends.py).  A date is a day number, which orders  *)
(* as its YYYY-MM-DD string does; a raw point is <<date, heat_score>>; a   *)
(* dict is the sequence of its <<key, value>> pairs in insertion order.    *)
(***************************************************************************)
RECURSIVE DailyHeatFrom(_, _)
DailyHeatFrom(daily_heat, lifecycle_raw) ==
  IF lifecycle_raw = <<>> THEN daily_heat
  ELSE LET point == Head(lifecycle_raw)
           at == {i \in 1..Len(daily_heat) : daily_heat[i][1] = point[1]}
           added == IF at = {} THEN Append(daily_heat, <<point[1], 0>>) ELSE daily_heat
           i == CHOOSE j \in 1..Len(added) : added[j][1] = point[1]
       IN DailyHeatFrom([added EXCEPT ![i] = <<point[1], added[i][2] + point[2]>>],
                        Tail(lifecycle_raw))

DailyHeat(lifecycle_raw) == DailyHeatFrom(<<>>, lifecycle_raw)

HeatOn(daily_heat, date) ==
  daily_heat[CHOOSE j \in 1..Len(daily_heat) : daily_heat[j][1] = date][2]

MaxHeat(daily_heat) ==
  CHOOSE h \in {daily_heat[j][2] : j \in 1..Len(daily_heat)} :
    \A j \in 1..Len(daily_heat) : daily_heat[j][2] <= h

(* [d for d, h in daily_heat.items() if h == max_heat][0] *)
MaxDate(daily_heat) ==
  LET first == CHOOSE j \in 1..Len(daily_heat) :
                 /\ daily_heat[j][2] = MaxHeat(daily_heat)
                 /\ \A k \in 1..(j - 1) : daily_heat[k][2] # MaxHeat(daily_heat)
  IN daily_heat[first][1]

(* the if chain on index i (from 0) and date; i < n * 0.2 and i > n * 0.8  *)
(* compare an int with a float, exact for the n of the model               *)
(* the peak test ahead of the birth test *)
PhasePeakFirst(i, date, n, max_date) ==
  IF date = max_date THEN "peak"
  ELSE IF 10 * i < 2 * n THEN "birth"
  ELSE IF date < max_date THEN "rise"
  ELSE IF 10 * i > 8 * n THEN "death"
  ELSE "decline"

Phase(i, date, n, max_date) ==
  IF 10 * i < 2 * n THEN "birth"
  ELSE IF date < max_date THEN "rise"
  ELSE IF date = max_date THEN "peak"
  ELSE IF 10 * i > 8 * n THEN "death"
  ELSE "decline"

get_keyword_lifecycle(lifecycle_raw) ==
  LET daily_heat == DailyHeat(lifecycle_raw)
      sorted_dates == SetToSeq({daily_heat[j][1] : j \in 1..Len(daily_heat)})
      max_date == MaxDate(daily_heat)
  IN [data_points |->
        [k \in 1..Len(sorted_dates) |->
           [timestamp |-> sorted_dates[k],
            heat_score |-> HeatOn(daily_heat, sorted_dates[k]),
            phase |-> Phase(k - 1, sorted_dates[k], Len(sorted_dates), max_date)]],
      birth_date |-> sorted_dates[1],
      peak_date |-> max_date,
      total_days |-> Len(sorted_dates)]

MaxDays == 6
DayHeats == {1, 2}

Reverse(s) == [i \in 1..Len(s) |-> s[Len(s) + 1 - i]]

(* a series over n consecutive dates, supplied in ascending or descending  *)
(* order, optionally with a second point (another platform) for one date   *)
LifecycleInit ==
  /\ ManagerIdle
  /\ \E n \in 1..MaxDays :
       \E heats \in [1..n -> DayHeats], descending \in BOOLEAN, second \in 0..n :
         LET ascending == [d \in 1..n |-> <<d, heats[d]>>]
             ordered == IF descending THEN Reverse(ascending) ELSE ascending
             lifecycle_raw == IF second = 0 THEN ordered
                              ELSE Append(ordered, <<second, 1>>)
         IN request = [op |-> "get_keyword_lifecycle", lifecycle_raw |-> lifecycle_raw]

GetKeywordLifecycle ==
  /\ request.op = "get_keyword_lifecycle"
  /\ ev' = [op |-> "get_keyword_lifecycle", lifecycle_raw |-> request.lifecycle_raw,
            returned |-> get_keyword_lifecycle(request.lifecycle_raw)]
  /\ request' = None
  /\ UNCHANGED manager

LifecycleNext == GetKeywordLifecycle

LifecycleSpec == LifecycleInit /\ [][LifecycleNext]_vars

(***************************************************************************)
(* The archive statistics (backend/app/services/github_archive.py).  An    *)
(* item is a record title / date, the date a day number, which orders as   *)
(* its YYYY-MM-DD string does.  A burst score and an average are in        *)
(* hundredths.                                                             *)
(***************************************************************************)
KwLol == <<"l", "o", "l">>
KwKPL == <<"K", "P", "L">>
KwHonorOfKings == <<"U+738B", "U+8005", "U+8363", "U+8000">>
(* four of the BLACKLIST_KEYWORDS *)
BLACKLIST_KEYWORDS == {KwLol, KwKPL, KwHonorOfKings, <<"A", "U+80A1">>}

KwVs == <<"v", "s">>
KwMovie == <<"U+7535", "U+5F71">>
KwTrip == <<"U+4E4B", "U+884C">>
(* three of the BLACKLIST_PATTERNS: ^.*vs.*$ , ^U+7535 U+5F71.*$ and       *)
(* ^.*U+4E4B U+884C$                                                       *)
BLACKLIST_PATTERNS ==
  {[kind |-> "contains", text |-> KwVs], [kind |-> "prefix", text |-> KwMovie],
   [kind |-> "suffix", text |-> KwTrip]}

(* str.lower() of the characters of the titles: the ASCII capitals *)
LowerTitleChar(c) ==
  CASE c = "A" -> "a"
    [] c = "K" -> "k"
    [] c = "L" -> "l"
    [] c = "O" -> "o"
    [] c = "P" -> "p"
    [] c = "S" -> "s"
    [] c = "V" -> "v"
    [] OTHER -> c

LowerTitle(s) == [i \in 1..Len(s) |-> LowerTitleChar(s[i])]

(* re.match(pattern, keyword, re.IGNORECASE) *)
TitlePatternMatch(pattern, s) ==
  CASE pattern.kind = "prefix" -> StartsWith(LowerTitle(s), LowerTitle(pattern.text))
    [] pattern.kind = "suffix" -> EndsWith(LowerTitle(s), LowerTitle(pattern.text))
    [] pattern.kind = "contains" -> Contains(LowerTitle(s), LowerTitle(pattern.text))

(* the terms compared as they are written, without lower() *)
IsBlacklistedCaseSensitive(keyword) ==
  \/ \E bl \in BLACKLIST_KEYWORDS : Contains(keyword, bl)
  \/ \E pattern \in BLACKLIST_PATTERNS : TitlePatternMatch(pattern, keyword)

is_blacklisted(keyword) ==
  \/ \E bl \in BLACKLIST_KEYWORDS : Contains(LowerTitle(keyword), LowerTitle(bl))
  \/ \E pattern \in BLACKLIST_PATTERNS : TitlePatternMatch(pattern, keyword)

(* 1.0 / math.log(days_on_list, 5) in thousandths *)
LogWeightMilli(days_on_list) ==
  CASE days_on_list = 11 -> 671
    [] days_on_list = 12 -> 648
    [] days_on_list = 13 -> 627
    [] days_on_list = 14 -> 610
    [] days_on_list = 15 -> 594
    [] days_on_list = 16 -> 580

(* two days on the list weighted like one *)
DaysWeightTwoAsOne(days_on_list) ==
  IF days_on_list <= 2 THEN 300
  ELSE IF days_on_list <= 10 THEN 1000
  ELSE LogWeightMilli(days_on_list)

DaysWeightMilli(days_on_list) ==
  IF days_on_list = 1 THEN 300
  ELSE IF days_on_list = 2 THEN 600
  ELSE IF days_on_list <= 10 THEN 1000
  ELSE LogWeightMilli(days_on_list)

(* in tenths *)
LifespanPenalty(lifespan_days) ==
  IF lifespan_days <= 14 THEN 10
  ELSE IF lifespan_days <= 30 THEN 8
  ELSE IF lifespan_days <= 60 THEN 5
  ELSE 3

(* base_score * days_weight * concentration * lifespan_penalty, rounded to *)
(* 2 decimals; peak_intensity is not used                                  *)
calculate_burst_score(total_appearances, days_on_list, peak_intensity, lifespan_days) ==
  IF days_on_list = 0 THEN 0
  ELSE RoundHalfEven(total_appearances * DaysWeightMilli(days_on_list)
                       * total_appearances * LifespanPenalty(lifespan_days),
                     days_on_list * 100)

(* date_counts[date] += 1 on a Counter *)
CountDate(date_counts, date) ==
  IF \E j \in 1..Len(date_counts) : date_counts[j][1] = date
  THEN [j \in 1..Len(date_counts) |->
          IF date_counts[j][1] = date
          THEN <<date, date_counts[j][2] + 1>> ELSE date_counts[j]]
  ELSE Append(date_counts, <<date, 1>>)

(* date_counts.most_common(1)[0]: the first of the most frequent dates *)
MostCommon(date_counts) ==
  date_counts[CHOOSE j \in 1..Len(date_counts) :
                /\ \A k \in 1..Len(date_counts) : date_counts[k][2] <= date_counts[j][2]
                /\ \A k \in 1..(j - 1) : date_counts[k][2] < date_counts[j][2]]

NewStats(keyword, date) ==
  [keyword |-> keyword, total_appearances |-> 0, dates |-> {},
   first_seen |-> date, last_seen |-> date, date_counts |-> <<>>]

(* first_seen kept as the date of the first item of the keyword *)
AddAppearanceKeepFirst(stats, date) ==
  [stats EXCEPT !.total_appearances = @ + 1,
                !.dates = @ \cup {date},
                !.date_counts = CountDate(@, date),
                !.last_seen = IF date > @ THEN date ELSE @]

AddAppearance(stats, date) ==
  [stats EXCEPT !.total_appearances = @ + 1,
                !.dates = @ \cup {date},
                !.date_counts = CountDate(@, date),
                !.first_seen = IF date < @ THEN date ELSE @,
                !.last_seen = IF date > @ THEN date ELSE @]

(* the first loop of aggregate_yearly_stats *)
RECURSIVE KeywordStats(_, _, _)
KeywordStats(keyword_stats, items, filter_blacklist) ==
  IF items = <<>> THEN keyword_stats
  ELSE LET keyword == Head(items).title
           date == Head(items).date
       IN IF filter_blacklist /\ is_blacklisted(keyword)
          THEN KeywordStats(keyword_stats, Tail(items), filter_blacklist)
          ELSE LET added ==
                     IF \E j \in 1..Len(keyword_stats) : keyword_stats[j].keyword = keyword
                     THEN keyword_stats
                     ELSE Append(keyword_stats, NewStats(keyword, date))
                   j == CHOOSE x \in 1..Len(added) : added[x].keyword = keyword
               IN KeywordStats([added EXCEPT ![j] = AddAppearance(added[j], date)],
                               Tail(items), filter_blacklist)

YearlyTrendItem(stats) ==
  LET peak == MostCommon(stats.date_counts)
      days_on_list == Cardinality(stats.dates)
      lifespan_days == (stats.last_seen - stats.first_seen) + 1
  IN [keyword |-> stats.keyword,
      total_appearances |-> stats.total_appearances,
      days_on_list |-> days_on_list,
      peak_date |-> peak[1],
      first_seen |-> stats.first_seen,
      last_seen |-> stats.last_seen,
      avg_appearances_per_day |->
        RoundHalfEven(stats.total_appearances * 100, Max(days_on_list, 1)),
      burst_score |-> calculate_burst_score(stats.total_appearances, days_on_list,
                                            peak[2], lifespan_days),
      peak_intensity |-> peak[2]]

SortKey(x, sort_by) ==
  IF sort_by = "burst" THEN x.burst_score
  ELSE IF sort_by = "days" THEN x.days_on_list
  ELSE x.total_appearances

RECURSIVE InsertByKey(_, _, _)
InsertByKey(sorted, x, sort_by) ==
  IF sorted = <<>> THEN <<x>>
  ELSE IF SortKey(Head(sorted), sort_by) >= SortKey(x, sort_by)
  THEN <<Head(sorted)>> \o InsertByKey(Tail(sorted), x, sort_by)
  ELSE <<x>> \o sorted

(* results.sort(key=..., reverse=True): stable *)
RECURSIVE SortResults(_, _)
SortResults(results, sort_by) ==
  IF results = <<>> THEN <<>>
  ELSE InsertByKey(SortResults(SubSeq(results, 1, Len(results) - 1), sort_by),
                   results[Len(results)], sort_by)

aggregate_yearly_stats(items, filter_blacklist, sort_by) ==
  LET keyword_stats == KeywordStats(<<>>, items, filter_blacklist)
      results == [j \in 1..Len(keyword_stats) |-> YearlyTrendItem(keyword_stats[j])]
  IN SortResults(results, sort_by)

MaxArchiveItems == 2

ArchiveTitles ==
  {<<"x">>, <<"l", "o">>, <<"L", "O", "L", "x">>, <<"k", "p", "l">>,
   KwHonorOfKings \o <<"U+5185", "U+6D4B">>, <<"a", "V", "S", "b">>,
   KwMovie \o <<"x">>, <<"x">> \o KwMovie, <<"x">> \o KwTrip}
ArchiveDates == {1, 2, 40}
SortOrders == {"burst", "total", "days"}

ArchiveItems == [title : ArchiveTitles, date : ArchiveDates]

ArchiveInit ==
  /\ ManagerIdle
  /\ \E items \in SeqsUpTo(ArchiveItems, MaxArchiveItems),
        filter_blacklist \in BOOLEAN, sort_by \in SortOrders :
       request = [op |-> "aggregate_yearly_stats", items |-> items,
                  filter_blacklist |-> filter_blacklist, sort_by |-> sort_by]

AggregateYearlyStats ==
  /\ request.op = "aggregate_yearly_stats"
  /\ ev' = [op |-> "aggregate_yearly_stats", items |-> request.items,
            filter_blacklist |-> request.filter_blacklist, sort_by |-> request.sort_by,
            results |-> aggregate_yearly_stats(request.items, request.filter_blacklist,
                                               request.sort_by)]
  /\ request' = None
  /\ UNCHANGED manager

ArchiveNext == AggregateYearlyStats

ArchiveSpec == ArchiveInit /\ [][ArchiveNext]_vars

(***************************************************************************)
(* calculate_burst_score on its own, with the counts aggregate_yearly_stats *)
(* can pass: the days on the list are at most the appearances and at most  *)
(* the lifespan, and no day without an appearance.                         *)
(***************************************************************************)
MaxAppearances == 12
Lifespans == {1, 14, 15, 30, 31, 60, 61}

BurstInit ==
  /\ ManagerIdle
  /\ \E total_appearances \in 0..MaxAppearances :
       \E days_on_list \in 0..total_appearances,
          peak_intensity \in {Min(1, total_appearances), total_appearances},
          lifespan \in Lifespans :
         /\ (days_on_list = 0) <=> (total_appearances = 0)
         /\ request = [op |-> "calculate_burst_score",
                       total_appearances |-> total_appearances,
                       days_on_list |-> days_on_list,
                       peak_intensity |-> peak_intensity,
                       lifespan_days |-> Max(lifespan, days_on_list)]

CalculateBurstScore ==
  /\ request.op = "calculate_burst_score"
  /\ ev' = [op |-> "calculate_burst_score",
            total_appearances |-> request.total_appearances,
            days_on_list |-> request.days_on_list,
            peak_intensity |-> request.peak_intensity,
            lifespan_days |-> request.lifespan_days,
            result |-> calculate_burst_score(request.total_appearances,
                                             request.days_on_list,
                                             request.peak_intensity,
                                             request.lifespan_days)]
  /\ request' = None
  /\ UNCHANGED manager

BurstNext == CalculateBurstScore

BurstSpec == BurstInit /\ [][BurstNext]_vars

(***************************************************************************)
(* Calls with any integer as a limit, over adapters that succeed: the      *)
(* manager takes its limits from its callers.                              *)
(***************************************************************************)
AnyLimits == {-1, 0, 1}

LimitNext ==
  \/ \E name \in Platforms : register_fetcher(name)
  \/ \E platform \in Platforms, limit \in AnyLimits, use_cache \in BOOLEAN :
        fetch_single_platform(platform, limit, use_cache)
  \/ \E limit \in AnyLimits, use_cache \in BOOLEAN : fetch_and_merge(limit, use_cache)
  \/ \E t \in 1..MaxTasks : AdapterReturn(t, FALSE)
  \/ FinishCycle(FALSE)

LimitSpec == Init /\ [][LimitNext]_vars

(***************************************************************************)
(* Every public operation of the manager in any interleaving, at one       *)
(* moment of the clock and with one limit: register_fetcher, the direct    *)
(* calls, the aggregation requests and clear_cache.                        *)
(***************************************************************************)
ManagerNext ==
  \/ \E name \in Platforms : register_fetcher(name)
  \/ \E platform \in Platforms, use_cache \in BOOLEAN :
        fetch_single_platform(platform, MaxItems, use_cache)
  \/ \E use_cache \in BOOLEAN : fetch_and_merge(MaxItems, use_cache)
  \/ \E t \in 1..MaxTasks, failed \in BOOLEAN : AdapterReturn(t, failed)
  \/ \E t \in 1..MaxTasks : AdapterRaise(t)
  \/ FinishCycle(FALSE)
  \/ \E platform \in Platforms \cup {""} : clear_cache(platform)

ManagerSpec == Init /\ [][ManagerNext]_vars


(***************************************************************************)
(* aggregate_yearly_stats over longer lists of few titles, so that a       *)
(* keyword is seen several times a day and on several days, in any order   *)
(* of the dates.                                                           *)
(***************************************************************************)
MaxStatsItems == 4

StatsTitles == {<<"x">>, <<"l", "o">>, <<"k", "p", "l">>}

StatsItems == [title : StatsTitles, date : ArchiveDates]

StatsInit ==
  /\ ManagerIdle
  /\ \E items \in SeqsUpTo(StatsItems, MaxStatsItems),
        filter_blacklist \in BOOLEAN, sort_by \in SortOrders :
       request = [op |-> "aggregate_yearly_stats", items |-> items,
                  filter_blacklist |-> filter_blacklist, sort_by |-> sort_by]

StatsNext == AggregateYearlyStats

StatsSpec == StatsInit /\ [][StatsNext]_vars


(***************************************************************************)
(* The /live/{platform} route.  fetch_single_platform returns the list it  *)
(* has just stored in the cache (the same object), or on a hit a new list  *)
(* of the cached items (the same objects); the route then writes two       *)
(* fields into every item it got, and so into the cached items.            *)
(***************************************************************************)
(* SentimentAnalyzer.analyze on a text without emotion words: the default  *)
(* result, the confidence in hundredths                                    *)
analyze(text) == [sentiment |-> "neutral", confidence |-> 50]

(* item["sentiment"] = ...; item["sentiment_confidence"] = ... *)
AddSentiment(item) ==
  LET sentiment_result == analyze(item.keyword)
  IN [f \in (DOMAIN item) \cup {"sentiment", "sentiment_confidence"} |->
        IF f = "sentiment" THEN sentiment_result.sentiment
        ELSE IF f = "sentiment_confidence" THEN sentiment_result.confidence
        ELSE item[f]]

(* the route's loop over the first n items of a list *)
AddSentimentToFirst(items, n) ==
  [i \in 1..Len(items) |-> IF i <= n THEN AddSentiment(items[i]) ELSE items[i]]

(* the route up to its response or to the await of the adapter *)
get_live_platform_trends(platform, limit) ==
  LET call == CallStart(platform, limit, TRUE)
      data == call.result
  IN /\ IF call.served = "await"
        THEN /\ FreeTasks # {}
             /\ LET t == CHOOSE x \in FreeTasks : \A y \in FreeTasks : x <= y
                IN tasks' = [tasks EXCEPT ![t] =
                     [pc |-> "awaiting", platform |-> platform, limit |-> limit,
                      slot |-> 0, overtaken |-> FALSE]]
        ELSE tasks' = tasks
     /\ _cache' = IF call.served = "hit" /\ platform \in DOMAIN _cache
                  THEN [_cache EXCEPT ![platform] = AddSentimentToFirst(@, Len(data))]
                  ELSE _cache
     /\ ev' = [op |-> "live", platform |-> platform, limit |-> limit,
               served |-> call.served,
               status_code |-> IF call.served = "value_error" THEN 500 ELSE 200,
               data |-> data,
               trends |-> AddSentimentToFirst(data, Len(data))]
     /\ UNCHANGED <<fetchers, _cache_time, now, source, cycle, last, request, archive>>

(* the adapter returns to the fetch_single_platform the route awaits: the  *)
(* manager stores the list and the route annotates the items of that list  *)
LiveResponse(t, failed) ==
  /\ tasks[t].pc = "awaiting"
  /\ LET platform == tasks[t].platform
         data == IF failed THEN <<>>
                 ELSE fetch_trending(source[platform], tasks[t].limit, now)
         trends == AddSentimentToFirst(data, Len(data))
     IN /\ _cache' = CachePayloadWrite(_cache, platform, trends)
        /\ _cache_time' = CacheTimeWrite(_cache_time, platform, now)
        /\ AfterCompletion(t, TRUE,
             [outcome |-> "ok", result |-> trends, captured |-> now])
        /\ ev' = [op |-> "live_response", platform |-> platform,
                  limit |-> tasks[t].limit, fetched |-> data, trends |-> trends]
  /\ UNCHANGED <<fetchers, now, source, request, archive>>

RouteNext ==
  \/ \E name \in Platforms : register_fetcher(name)
  \/ \E platform \in Platforms, limit \in Limits :
        get_live_platform_trends(platform, limit)
  \/ \E t \in 1..MaxTasks, failed \in BOOLEAN : LiveResponse(t, failed)
  \/ \E t \in 1..MaxTasks : AdapterRaise(t)
  \/ Tick

RouteSpec == Init /\ [][RouteNext]_vars


(***************************************************************************)
(* GitHubArchiveFetcher.fetch_day_data.  A response of the archive host is *)
(* an exception of the client, or a status code with a body; a body is    *)
(* JSON or not; the JSON of a day is a list of entries with a title and a  *)
(* url, and an entry of another shape is possible.                         *)
(***************************************************************************)
DayDates == {1, 2}

DayEntry == [title |-> <<"x">>, url |-> "u"]
EntryWithoutUrl == [title |-> <<"x">>]

NoBody == [json |-> FALSE]
JsonBody(data) == [json |-> TRUE, data |-> data]

DayResponses ==
  {[raises |-> TRUE, status_code |-> 0, body |-> NoBody],
   [raises |-> FALSE, status_code |-> 404, body |-> NoBody],
   [raises |-> FALSE, status_code |-> 500, body |-> NoBody],
   [raises |-> FALSE, status_code |-> 200, body |-> NoBody],
   [raises |-> FALSE, status_code |-> 200, body |-> JsonBody(<<>>)],
   [raises |-> FALSE, status_code |-> 200, body |-> JsonBody(<<DayEntry>>)],
   [raises |-> FALSE, status_code |-> 200, body |-> JsonBody(<<DayEntry, EntryWithoutUrl>>)]}

(* [HotSearchItem(title=item["title"], url=item["url"], date=date) for     *)
(* item in data]: a KeyError when an entry lacks a key                     *)
HotSearchItems(data, date) ==
  IF \E i \in 1..Len(data) : {"title", "url"} \ (DOMAIN data[i]) # {}
  THEN Raise("KeyError")
  ELSE Return([i \in 1..Len(data) |->
                 [title |-> data[i].title, url |-> data[i].url, date |-> date]])

FreeDayCalls == {c \in 1..MaxDayCalls : archive.calls[c].pc = "idle"}

(* fetch_day_data up to its return from the cache or to the await of the   *)
(* request                                                                 *)
fetch_day_data(date) ==
  /\ IF date \in DOMAIN archive._cache
     THEN /\ archive' = archive
          /\ ev' = [op |-> "fetch_day_data", date |-> date, served |-> "cache",
                    outcome |-> HotSearchItems(archive._cache[date], date)]
     ELSE /\ FreeDayCalls # {}
          /\ LET c == CHOOSE x \in FreeDayCalls : \A y \in FreeDayCalls : x <= y
             IN archive' = [archive EXCEPT !.calls[c] = [pc |-> "awaiting", date |-> date]]
          /\ ev' = [op |-> "fetch_day_data", date |-> date, served |-> "await",
                    outcome |-> Return(<<>>)]
  /\ UNCHANGED <<fetchers, _cache, _cache_time, now, source, tasks, cycle, last, request>>

(* the try block after the response has arrived: the cache is written      *)
(* once the status is neither 404 nor an error and the body has parsed     *)
DayCacheWrite(cache, date, response) ==
  IF ~response.raises /\ response.status_code = 200 /\ response.body.json
  THEN DictSet(cache, date, response.body.data) ELSE cache

(* what fetch_day_data returns for a response: the except branch turns     *)
(* every exception of the try block into an empty list                     *)
DayResult(date, response) ==
  IF response.raises THEN Return(<<>>)
  ELSE IF response.status_code = 404 THEN Return(<<>>)
  ELSE IF response.status_code >= 400 THEN Return(<<>>)
  ELSE IF ~response.body.json THEN Return(<<>>)
  ELSE LET built == HotSearchItems(response.body.data, date)
       IN IF built.raised THEN Return(<<>>) ELSE built

(* the response of call c arrives and fetch_day_data runs to its return *)
DayResponse(c, response) ==
  /\ archive.calls[c].pc = "awaiting"
  /\ LET date == archive.calls[c].date
         cache == DayCacheWrite(archive._cache, date, response)
     IN /\ archive' = [_cache |-> cache,
                       calls |-> [archive.calls EXCEPT ![c] = Idle]]
        /\ ev' = [op |-> "day_response", date |-> date, response |-> response,
                  recorded |-> cache # archive._cache,
                  outcome |-> DayResult(date, response)]
  /\ UNCHANGED <<fetchers, _cache, _cache_time, now, source, tasks, cycle, last, request>>

DayInit ==
  /\ ManagerIdle
  /\ request = None

DayNext ==
  \/ \E date \in DayDates : fetch_day_data(date)
  \/ \E c \in 1..MaxDayCalls, response \in DayResponses : DayResponse(c, response)

DaySpec == DayInit /\ [][DayNext]_vars


(***************************************************************************)
(* Direct calls over adapters whose output is fixed: every adapter call    *)
(* succeeds and the hot lists never change.                                *)
(***************************************************************************)
FixedNext ==
  \/ \E name \in Platforms : register_fetcher(name)
  \/ \E platform \in Platforms, limit \in Limits, use_cache \in BOOLEAN :
        fetch_single_platform(platform, limit, use_cache)
  \/ \E t \in 1..MaxTasks : AdapterReturn(t, FALSE)
  \/ Tick

FixedSpec == Init /\ [][FixedNext]_vars


(***************************************************************************)
(* Properties                                                              *)
(***************************************************************************)
Returned == ev.op = "merged"

RECURSIVE SumOver(_, _)
SumOver(f, S) ==
  IF S = {} THEN 0
  ELSE LET x == CHOOSE y \in S : TRUE IN f[x] + SumOver(f, S \ {x})

SumDict(d) == SumOver(d, DOMAIN d)

(* the heat of the items of a list whose keyword normalizes to key *)
RECURSIVE HeatOfKeyIn(_, _)
HeatOfKeyIn(items, key) ==
  IF items = <<>> THEN 0
  ELSE (IF _normalize_keyword(Head(items).keyword) = key
        THEN Head(items).raw_heat_score ELSE 0) + HeatOfKeyIn(Tail(items), key)

RECURSIVE HeatOfKey(_, _)
HeatOfKey(all_data, key) ==
  IF all_data = <<>> THEN 0
  ELSE HeatOfKeyIn(Head(all_data)[2], key) + HeatOfKey(Tail(all_data), key)

ItemKeys(all_data) ==
  UNION {{_normalize_keyword(all_data[i][2][k].keyword) : k \in 1..Len(all_data[i][2])} :
           i \in 1..Len(all_data)}

ItemCount(all_data) == SumOver([i \in 1..Len(all_data) |-> Len(all_data[i][2])],
                               1..Len(all_data))

(* C1: every merged record returned by fetch_and_merge has raw_heat_score  *)
(* equal to the sum of the values of its heat_by_platform map, also when a *)
(* platform returns several items that normalize to the same key.          *)
C1_HeatIsSumOfPlatformHeats ==
  Returned =>
    \A i \in 1..Len(ev.merged) :
      ev.merged[i].raw_heat_score = SumDict(ev.merged[i].heat_by_platform)

(* C2: a failed refresh of a platform that has a cache entry (the adapter  *)
(* raises, or catches its error and returns the empty list) leaves the     *)
(* payload and the capture time of the entry as they were.                 *)
C2_FailedRefreshKeepsEntry ==
  [][(/\ ev'.op = "complete"
      /\ ev'.outcome \in {"raise", "empty"}
      /\ ev'.platform \in DOMAIN _cache)
     => /\ ev'.platform \in DOMAIN _cache' \cap DOMAIN _cache_time'
        /\ _cache'[ev'.platform] = _cache[ev'.platform]
        /\ _cache_time'[ev'.platform] = _cache_time[ev'.platform]]_vars

(* C3: a fetch_single_platform call of a registered platform invokes the   *)
(* adapter iff use_cache is false, the platform has no entry, or the entry *)
(* is at least CACHE_TTL old; a served entry is younger than CACHE_TTL;    *)
(* every adapter invocation that returns overwrites payload and time.      *)
C3_InvokesIffStale ==
  [][/\ ev'.op = "call" =>
          \A i \in 1..Len(ev'.calls) :
            LET call == ev'.calls[i]
                stale == \/ ~call.use_cache
                         \/ call.platform \notin DOMAIN _cache_time
                         \/ now - _cache_time[call.platform] >= CACHE_TTL
            IN call.served # "value_error" =>
                 /\ (call.served = "await") <=> stale
                 /\ call.served = "hit" =>
                      /\ now - _cache_time[call.platform] < CACHE_TTL
                      /\ call.result = PySlice(_cache[call.platform], call.limit)
     /\ (ev'.op = "complete" /\ ev'.outcome \in {"ok", "empty"}) =>
          /\ _cache'[ev'.platform] = ev'.result
          /\ _cache_time'[ev'.platform] = now]_vars

C3_Witness ==
  /\ ev.op = "call"
  /\ \E i \in 1..Len(ev.calls) :
       /\ ev.calls[i].served = "await"
       /\ ev.calls[i].use_cache
       /\ ev.calls[i].platform \in DOMAIN _cache_time
       /\ now - _cache_time[ev.calls[i].platform] >= CACHE_TTL

(* C4: when some of the adapters of a fetch_and_merge raise, the call      *)
(* returns, every failing platform contributes no item, and every item of  *)
(* the other platforms is folded into the merged result.                   *)
C4_FailureIsolated ==
  Returned =>
    /\ \A i \in 1..Len(ev.slots) :
         IF ev.slots[i].outcome = "raise"
         THEN /\ ev.all_data[i][2] = <<>>
              /\ \A r \in 1..Len(ev.merged) :
                   ev.platforms[i] \notin Range(ev.merged[r].platforms)
         ELSE \A k \in 1..Len(ev.slots[i].result) :
                \E r \in 1..Len(ev.merged) :
                  /\ _normalize_keyword(ev.merged[r].keyword)
                       = _normalize_keyword(ev.slots[i].result[k].keyword)
                  /\ ev.platforms[i] \in Range(ev.merged[r].platforms)
    /\ SumOver([r \in 1..Len(ev.merged) |-> ev.merged[r].raw_heat_score],
               1..Len(ev.merged))
         = SumOver([i \in 1..Len(ev.slots) |->
                      SumOver([k \in 1..Len(ev.slots[i].result) |->
                                 ev.slots[i].result[k].raw_heat_score],
                              1..Len(ev.slots[i].result))],
                   {i \in 1..Len(ev.slots) : ev.slots[i].outcome # "raise"})

C4_Witness ==
  /\ Returned
  /\ \E i, j \in 1..Len(ev.slots) :
       /\ ev.slots[i].outcome = "raise"
       /\ ev.slots[j].outcome = "ok"
       /\ ev.slots[j].result # <<>>
  /\ ev.merged # <<>>

(* C5: a fetch_and_merge in flight eventually returns, also when one of    *)
(* the adapters never completes.                                           *)
C5_CycleReturns == (cycle.pc = "gathering") ~> (cycle.pc = "idle")

(* C6: the cache entry of a platform changes only when a refresh of that   *)
(* platform completes (or the entry is cleared), and the completing        *)
(* refresh installs its own payload together with its own completion time: *)
(* after two concurrent refreshes the entry is the one of the refresh that *)
(* finished last, and payload and time never come from different ones.     *)
C6_LastWriteWins ==
  [][\A platform \in Platforms :
       LET completes == /\ ev'.op = "complete"
                        /\ ev'.platform = platform
                        /\ ev'.outcome \in {"ok", "empty"}
           had == platform \in DOMAIN _cache
           has == platform \in DOMAIN _cache'
       IN /\ (platform \in DOMAIN _cache') <=> (platform \in DOMAIN _cache_time')
          /\ completes => /\ has
                          /\ _cache'[platform] = ev'.result
                          /\ _cache_time'[platform] = now
          /\ (has /\ ~completes) =>
               /\ had
               /\ _cache'[platform] = _cache[platform]
               /\ _cache_time'[platform] = _cache_time[platform]]_vars

C6_Witness ==
  /\ ev.op = "complete"
  /\ ev.outcome = "ok"
  /\ ev.overtaken
  /\ ev.result # <<>>
  /\ _cache[ev.platform] = ev.result
  /\ _cache_time[ev.platform] = now
  /\ \A k \in 1..Len(ev.result) : ev.result[k].timestamp = now

(* C7: the list returned by fetch_and_merge is in descending order of      *)
(* raw_heat_score, equal scores in order of earliest first_seen, and equal *)
(* first_seen in lexicographic order of keyword.                           *)
(* Python compares strings by code point; a proper prefix is smaller *)
CodePoint(c) ==
  CASE c = " " -> 32
    [] c = "!" -> 33
    [] c = "A" -> 65
    [] c = "a" -> 97
    [] c = "b" -> 98
    [] c = "c" -> 99

RECURSIVE StrLess(_, _)
StrLess(a, b) ==
  IF b = <<>> THEN FALSE
  ELSE IF a = <<>> THEN TRUE
  ELSE IF CodePoint(Head(a)) # CodePoint(Head(b))
       THEN CodePoint(Head(a)) < CodePoint(Head(b))
  ELSE StrLess(Tail(a), Tail(b))

RecordBefore(x, y) ==
  \/ x.raw_heat_score > y.raw_heat_score
  \/ /\ x.raw_heat_score = y.raw_heat_score
     /\ \/ x.first_seen < y.first_seen
        \/ /\ x.first_seen = y.first_seen
           /\ ~StrLess(y.keyword, x.keyword)

C7_OrderWithTieBreaks ==
  Returned =>
    \A i \in 1..Len(ev.merged) - 1 : RecordBefore(ev.merged[i], ev.merged[i + 1])

(* C8: two consecutive fetch_and_merge calls with the same arguments, over *)
(* adapters that return the same lists and with no cache entry expiring    *)
(* between the calls, return the same records in the same order (keyword,  *)
(* platforms, first_seen, heat_by_platform, raw_heat_score).               *)
SameArguments(a, b) ==
  /\ a.limit_per_platform = b.limit_per_platform
  /\ a.use_cache = b.use_cache
  /\ a.platforms = b.platforms

FixedOutputs(a, b) ==
  \A i \in 1..Len(a.slots) :
    /\ a.slots[i].outcome \in {"hit", "ok"}
    /\ b.slots[i].outcome \in {"hit", "ok"}
    /\ (a.slots[i].outcome = "ok" /\ b.slots[i].outcome = "ok")
         => a.slots[i].result = b.slots[i].result

NoExpiryBetween(a, b) ==
  b.use_cache =>
    \A i \in 1..Len(a.slots) : b.startTime - a.slots[i].captured < CACHE_TTL

Visible(record) ==
  [keyword |-> record.keyword, platforms |-> record.platforms,
   first_seen |-> record.first_seen, heat_by_platform |-> record.heat_by_platform,
   raw_heat_score |-> record.raw_heat_score]

SameResult(m1, m2) ==
  /\ Len(m1) = Len(m2)
  /\ \A i \in 1..Len(m1) : Visible(m1[i]) = Visible(m2[i])

Repeated ==
  /\ Returned
  /\ ev.previous.op = "merged"
  /\ SameArguments(ev.previous, ev)
  /\ FixedOutputs(ev.previous, ev)
  /\ NoExpiryBetween(ev.previous, ev)

C8_Deterministic == Repeated => SameResult(ev.previous.merged, ev.merged)

C8_Witness ==
  /\ Repeated
  /\ ev.use_cache
  /\ \E i \in 1..Len(ev.slots) :
       ev.previous.slots[i].outcome = "ok" /\ ev.slots[i].outcome = "hit"
  /\ Len(ev.merged) >= 2
  /\ SameResult(ev.previous.merged, ev.merged)

(* C9: every merged record has a platforms list without duplicates,       *)
(* platform_count equal to the number of platforms in it, and at least 1.  *)
C9_PlatformCount ==
  Returned =>
    \A r \in 1..Len(ev.merged) :
      LET record == ev.merged[r]
      IN /\ \A i, j \in 1..Len(record.platforms) :
              i # j => record.platforms[i] # record.platforms[j]
         /\ record.platform_count = Cardinality(Range(record.platforms))
         /\ record.platform_count >= 1

C9_Witness ==
  /\ Returned
  /\ \E r \in 1..Len(ev.merged) :
       /\ ev.merged[r].platform_count = 2
       /\ \E i \in 1..Len(ev.all_data) :
            \E k, l \in 1..Len(ev.all_data[i][2]) :
              /\ k # l
              /\ _normalize_keyword(ev.all_data[i][2][k].keyword)
                   = _normalize_keyword(ev.merged[r].keyword)
              /\ _normalize_keyword(ev.all_data[i][2][l].keyword)
                   = _normalize_keyword(ev.merged[r].keyword)

(* C10: two items are folded into the same merged record iff their         *)
(* normalized keywords are equal: there is one record per distinct         *)
(* normalized keyword of the cycle, and every item is counted once, in the *)
(* record of its key.                                                      *)
C10_MergeIffSameKey ==
  Returned =>
    /\ Len(ev.merged) = Cardinality(ItemKeys(ev.all_data))
    /\ {_normalize_keyword(ev.merged[r].keyword) : r \in 1..Len(ev.merged)}
         = ItemKeys(ev.all_data)
    /\ \A r \in 1..Len(ev.merged) :
         ev.merged[r].raw_heat_score
           = HeatOfKey(ev.all_data, _normalize_keyword(ev.merged[r].keyword))

C10_Witness ==
  /\ Returned
  /\ Len(ev.merged) = 2
  /\ ItemCount(ev.all_data) = 4
  /\ \E i \in 1..Len(ev.all_data) :
       \E k, l \in 1..Len(ev.all_data[i][2]) :
         /\ ev.all_data[i][2][k].keyword # ev.all_data[i][2][l].keyword
         /\ _normalize_keyword(ev.all_data[i][2][k].keyword)
              = _normalize_keyword(ev.all_data[i][2][l].keyword)


(* C11: the output of _normalize_keyword consists only of CJK ideographs,  *)
(* ASCII lower-case letters and ASCII digits; whitespace, punctuation, the *)
(* underscore and the letters outside ASCII are dropped.                   *)
C11_OnlyCjkAsciiLowerDigits ==
  ev.op = "_normalize_keyword" =>
    \A i \in 1..Len(ev.normalized) :
      ev.normalized[i] \in CJK \cup AsciiLower \cup AsciiDigits


(* C12: calculate_platform_multiplier(n) is 0 for n <= 0, 0.3 for n = 1,   *)
(* 1.0 for n = 2 and min(1.5^(n-2), 5.0) for n >= 3; it never exceeds 5.0, *)
(* M(1) < M(2), and M(n) <= M(n+1) for n >= 2.                             *)
C12_PlatformMultiplier ==
  ev.op = "calculate_platform_multiplier" =>
    /\ ~ev.result.raised
    /\ LET n == ev.platform_count.n
           m == ev.result.value
           next == calculate_platform_multiplier(Num(n + 1)).value
       IN /\ n <= 0 => m.num = 0
          /\ n = 1 => (10 * m.num = 3 * m.den /\ m.num * next.den < next.num * m.den)
          /\ n = 2 => m.num = m.den
          /\ n >= 3 => m.num * IntPow(2, n - 2)
                         = Min(IntPow(3, n - 2), 5 * IntPow(2, n - 2)) * m.den
          /\ m.num <= 5 * m.den
          /\ n >= 2 => m.num * next.den <= next.num * m.den

C12_Witness ==
  /\ ev.op = "calculate_platform_multiplier"
  /\ ev.platform_count.n = 6
  /\ ev.result.value = Rat(5, 1)

(* C13: every item process_all_trends returns has real_score equal to      *)
(* base_heat x platform_multiplier x longevity_factor x (1 - penalty) of   *)
(* its own score_breakdown, rounded to 2 decimals.                         *)
C13_ScoreIsProductOfBreakdown ==
  (ev.op = "process_all_trends" /\ ~ev.raised) =>
    \A j \in 1..Len(ev.processed) :
      LET b == ev.processed[j].score_breakdown
      IN ev.processed[j].real_score
           = RoundHalfEven(b.base_heat.n * b.platform_multiplier.num
                             * b.longevity_factor * (10 - b.marketing_penalty),
                           b.platform_multiplier.den * 100)

C13_Witness ==
  /\ ev.op = "process_all_trends"
  /\ ~ev.raised
  /\ \E j \in 1..Len(ev.processed) :
       /\ ev.processed[j].score_breakdown.longevity_factor = 1585
       /\ ev.processed[j].score_breakdown.marketing_penalty = 5
       /\ ev.processed[j].score_breakdown.platform_multiplier = Rat(3, 10)
       /\ ev.processed[j].real_score = 238

Malformed(trend) ==
  \/ Get(trend, "raw_heat_score", DefaultHeat).t # "num"
  \/ Get(trend, "platform_count", DefaultCount).t # "num"
  \/ Get(trend, "keyword", DefaultKeyword).t # "str"

(* C14: process_all_trends over a batch with one malformed item            *)
(* (raw_heat_score, platform_count or keyword null or of the wrong type)   *)
(* does not raise and returns a score for every other item.                *)
C14_BadItemDoesNotAbort ==
  (/\ ev.op = "process_all_trends"
   /\ Cardinality({i \in 1..Len(ev.trends) : Malformed(ev.trends[i])}) = 1)
  => /\ ~ev.raised
     /\ \A i \in 1..Len(ev.trends) :
          ~Malformed(ev.trends[i]) =>
            \E j \in 1..Len(ev.processed) :
              /\ "real_score" \in DOMAIN ev.processed[j]
              /\ \A k \in DOMAIN ev.trends[i] : ev.processed[j][k] = ev.trends[i][k]

Unreadable(x) == x.t # "isostr"

(* C15: calculate_longevity_factor returns 1.0 whenever first_seen or      *)
(* last_seen is missing, empty, not a string or not an ISO timestamp, and  *)
(* calculate_real_score of such an item is raw_heat_score x M x (1 - P)    *)
(* rounded to 2 decimals.                                                  *)
C15_UnreadableTimestampIsNeutral ==
  /\ (/\ ev.op = "calculate_longevity_factor"
      /\ (Unreadable(ev.first_seen) \/ Unreadable(ev.last_seen)))
     => ev.result = 1000
  /\ (/\ ev.op = "calculate_real_score"
      /\ \/ Unreadable(Get(ev.trend_data, "first_seen", DefaultSeen))
         \/ Unreadable(Get(ev.trend_data, "last_seen", DefaultSeen))
      /\ ~Malformed(ev.trend_data))
     => LET heat == Get(ev.trend_data, "raw_heat_score", DefaultHeat).n
            m == calculate_platform_multiplier(
                   Get(ev.trend_data, "platform_count", DefaultCount)).value
            p == calculate_marketing_penalty(
                   Get(ev.trend_data, "keyword", DefaultKeyword),
                   Get(ev.trend_data, "is_marketing", DefaultFlag)).value
        IN /\ ~ev.result.raised
           /\ ev.result.value = RoundHalfEven(heat * m.num * (10 - p) * 10, m.den)

C15_Witness ==
  /\ ev.op = "calculate_real_score"
  /\ "first_seen" \in DOMAIN ev.trend_data
  /\ ev.trend_data["first_seen"].t = "none"
  /\ "last_seen" \in DOMAIN ev.trend_data
  /\ ev.trend_data["last_seen"].t = "isostr"
  /\ ~ev.result.raised
  /\ ev.result.value = 1500

(* C16: for first_seen and last_seen k whole days apart, k >= 0,           *)
(* calculate_longevity_factor returns log2(k+1), and 1.0 for k = 0.        *)
C16_LongevityOfWholeDays ==
  (/\ ev.op = "calculate_longevity_factor"
   /\ ev.first_seen.t = "isostr"
   /\ ev.last_seen.t = "isostr"
   /\ ev.last_seen.h >= ev.first_seen.h
   /\ (ev.last_seen.h - ev.first_seen.h) % HalfDaysPerDay = 0)
  => LET k == (ev.last_seen.h - ev.first_seen.h) \div HalfDaysPerDay
     IN ev.result = IF k = 0 THEN 1000 ELSE Log2Milli(k + 1)

(* C17: process_all_trends run again on the unchanged list returns the     *)
(* same items with the same real_score and score_breakdown in the same     *)
(* order, and a call leaves the input list and its items as they were.     *)
C17_Idempotent ==
  ev.op = "process_all_trends" =>
    /\ ev.trends_after = ev.trends
    /\ (ev.repeated /\ ~ev.raised) => ev.processed = ev.previous

C17_Witness ==
  /\ ev.op = "process_all_trends"
  /\ ev.repeated
  /\ ~ev.raised
  /\ Len(ev.processed) = 2
  /\ ev.processed[1].real_score > ev.processed[2].real_score
  /\ ev.processed[1].keyword = ev.trends[2].keyword
  /\ ev.processed[1].keyword # ev.trends[1].keyword


RawDates(lifecycle_raw) == {lifecycle_raw[k][1] : k \in 1..Len(lifecycle_raw)}

(* the summed heat of a date *)
DayTotal(lifecycle_raw, date) ==
  SumOver([k \in 1..Len(lifecycle_raw) |->
             IF lifecycle_raw[k][1] = date THEN lifecycle_raw[k][2] ELSE 0],
          1..Len(lifecycle_raw))

(* the chronologically earliest date whose summed heat is the maximum *)
EarliestPeak(lifecycle_raw) ==
  CHOOSE d \in RawDates(lifecycle_raw) :
    /\ \A e \in RawDates(lifecycle_raw) :
         DayTotal(lifecycle_raw, e) <= DayTotal(lifecycle_raw, d)
    /\ \A e \in RawDates(lifecycle_raw) :
         DayTotal(lifecycle_raw, e) = DayTotal(lifecycle_raw, d) => d <= e

(* C18: with N distinct dates in ascending order, the point at index i     *)
(* with date d has the phase of the first rule that matches:               *)
(* i < floor(0.2 N) birth; d < peak_date rise; d = peak_date peak;         *)
(* i > floor(0.8 N) death; otherwise decline.                              *)
C18_PhaseRules ==
  ev.op = "get_keyword_lifecycle" =>
    LET points == ev.returned.data_points
        n == Len(points)
        peak_date == EarliestPeak(ev.lifecycle_raw)
    IN \A k \in 1..n :
         LET i == k - 1
             d == points[k].timestamp
         IN points[k].phase =
              IF i < (2 * n) \div 10 THEN "birth"
              ELSE IF d < peak_date THEN "rise"
              ELSE IF d = peak_date THEN "peak"
              ELSE IF i > (8 * n) \div 10 THEN "death"
              ELSE "decline"

(* C19: the output has one point per distinct date in ascending order, and *)
(* exactly one point is labelled peak: the one on the earliest date whose  *)
(* summed heat is the maximum, in whatever order the points were supplied. *)
C19_OnePeakOnEarliestMaximum ==
  ev.op = "get_keyword_lifecycle" =>
    LET points == ev.returned.data_points
    IN /\ {points[k].timestamp : k \in 1..Len(points)} = RawDates(ev.lifecycle_raw)
       /\ \A k \in 1..(Len(points) - 1) : points[k].timestamp < points[k + 1].timestamp
       /\ \A k \in 1..Len(points) :
            points[k].phase = "peak"
              <=> points[k].timestamp = EarliestPeak(ev.lifecycle_raw)


(* a title that case-insensitively contains a denylisted term or matches a *)
(* denylist pattern                                                        *)
Denylisted(title) ==
  \/ \E term \in BLACKLIST_KEYWORDS :
       \E i \in 0..(Len(title) - Len(term)) :
         \A k \in 1..Len(term) :
           LowerTitleChar(title[i + k]) = LowerTitleChar(term[k])
  \/ \E pattern \in BLACKLIST_PATTERNS : TitlePatternMatch(pattern, title)

InputTitles == {ev.items[i].title : i \in 1..Len(ev.items)}
ResultTitles == {ev.results[j].keyword : j \in 1..Len(ev.results)}

(* C20: with filter_blacklist on, the result of aggregate_yearly_stats has *)
(* exactly the titles of the input that are not denylisted; with the       *)
(* filter off it has every title of the input.                             *)
C20_DenylistFilter ==
  ev.op = "aggregate_yearly_stats" =>
    ResultTitles = IF ev.filter_blacklist
                   THEN {title \in InputTitles : ~Denylisted(title)}
                   ELSE InputTitles

C20_Witness ==
  /\ ev.op = "aggregate_yearly_stats"
  /\ ev.filter_blacklist
  /\ Len(ev.items) = 2
  /\ ev.items[1].title = <<"L", "O", "L", "x">>
  /\ ev.items[2].title = <<"l", "o">>
  /\ ResultTitles = {<<"l", "o">>}


TitleCodePoint(c) ==
  CASE c = "A" -> 65
    [] c = "K" -> 75
    [] c = "L" -> 76
    [] c = "O" -> 79
    [] c = "P" -> 80
    [] c = "S" -> 83
    [] c = "V" -> 86
    [] c = "a" -> 97
    [] c = "b" -> 98
    [] c = "k" -> 107
    [] c = "l" -> 108
    [] c = "o" -> 111
    [] c = "p" -> 112
    [] c = "s" -> 115
    [] c = "v" -> 118
    [] c = "x" -> 120
    [] c = "U+4E4B" -> 20043
    [] c = "U+5185" -> 20869
    [] c = "U+5F71" -> 24433
    [] c = "U+6D4B" -> 27979
    [] c = "U+738B" -> 29579
    [] c = "U+7535" -> 30005
    [] c = "U+8000" -> 32768
    [] c = "U+8005" -> 32773
    [] c = "U+80A1" -> 32929
    [] c = "U+8363" -> 33635
    [] c = "U+884C" -> 34892

RECURSIVE TitleLess(_, _)
TitleLess(a, b) ==
  IF b = <<>> THEN FALSE
  ELSE IF a = <<>> THEN TRUE
  ELSE IF TitleCodePoint(Head(a)) # TitleCodePoint(Head(b))
       THEN TitleCodePoint(Head(a)) < TitleCodePoint(Head(b))
  ELSE TitleLess(Tail(a), Tail(b))

(* C22: the results of aggregate_yearly_stats are in descending order of   *)
(* the selected key, and results equal on the key are in ascending order   *)
(* of keyword.                                                             *)
C22_SortedWithKeywordTieBreak ==
  ev.op = "aggregate_yearly_stats" =>
    \A j \in 1..(Len(ev.results) - 1) :
      LET x == ev.results[j]
          y == ev.results[j + 1]
          Key(r) == CASE ev.sort_by = "burst" -> r.burst_score
                      [] ev.sort_by = "days" -> r.days_on_list
                      [] OTHER -> r.total_appearances
      IN \/ Key(x) > Key(y)
         \/ (Key(x) = Key(y) /\ TitleLess(x.keyword, y.keyword))


(* C23: a call of fetch_single_platform or fetch_and_merge with a limit    *)
(* that is not positive is rejected: it is neither served from the cache   *)
(* nor does it reach an adapter, so no adapter call made with such a limit *)
(* ever completes and writes the cache.                                    *)
C23_NonPositiveLimitRejected ==
  /\ ev.op = "call" =>
       \A i \in 1..Len(ev.calls) :
         ev.calls[i].limit <= 0 => ev.calls[i].served \notin {"hit", "await"}
  /\ ev.op = "complete" => ev.limit > 0


(* the positions of the input items that survive the filter, and those of  *)
(* them with a given title and date                                        *)
Surviving ==
  {i \in 1..Len(ev.items) : ~(ev.filter_blacklist /\ Denylisted(ev.items[i].title))}

SurvivingOf(keyword) == {i \in Surviving : ev.items[i].title = keyword}

SurvivingOn(keyword, date) == {i \in SurvivingOf(keyword) : ev.items[i].date = date}

(* C24: for every keyword of the result of aggregate_yearly_stats,         *)
(* total_appearances is the number of surviving items with that title,     *)
(* days_on_list the number of their distinct dates, first_seen and         *)
(* last_seen the least and the greatest of these dates, peak_intensity the *)
(* largest count of one date and peak_date a date with that count; the     *)
(* totals of all keywords add up to the number of surviving items.         *)
C24_KeywordStatistics ==
  ev.op = "aggregate_yearly_stats" =>
    /\ \A j \in 1..Len(ev.results) :
         LET r == ev.results[j]
             dates == {ev.items[i].date : i \in SurvivingOf(r.keyword)}
         IN /\ r.total_appearances = Cardinality(SurvivingOf(r.keyword))
            /\ r.days_on_list = Cardinality(dates)
            /\ r.first_seen \in dates /\ \A d \in dates : r.first_seen <= d
            /\ r.last_seen \in dates /\ \A d \in dates : d <= r.last_seen
            /\ \A d \in dates : Cardinality(SurvivingOn(r.keyword, d)) <= r.peak_intensity
            /\ r.peak_date \in dates
            /\ Cardinality(SurvivingOn(r.keyword, r.peak_date)) = r.peak_intensity
    /\ SumOver([j \in 1..Len(ev.results) |-> ev.results[j].total_appearances],
               1..Len(ev.results))
         = Cardinality(Surviving)

C24_Witness ==
  /\ ev.op = "aggregate_yearly_stats"
  /\ ev.filter_blacklist
  /\ Len(ev.items) = 4
  /\ Cardinality(Surviving) = 3
  /\ \E j \in 1..Len(ev.results) :
       /\ ev.results[j].total_appearances = 3
       /\ ev.results[j].days_on_list = 2
       /\ ev.results[j].peak_intensity = 2
       /\ ev.results[j].peak_date # ev.results[j].first_seen
       /\ ev.items[1].date # ev.results[j].first_seen


(* C25: a cache entry changes only by being replaced as a whole in a       *)
(* refresh, so whenever a platform has an entry it is a list of items as   *)
(* an adapter returned them: the fields the route adds to the items it     *)
(* returns are not in the cached items that a later hit reads.             *)
C25_CachePayloadOnlyReplaced ==
  /\ ev.op = "live_response" => _cache[ev.platform] = ev.fetched
  /\ \A platform \in DOMAIN _cache :
       \A i \in 1..Len(_cache[platform]) :
         "sentiment" \notin DOMAIN _cache[platform][i]


(* a response that is not a day of data: the request raised, the status    *)
(* is not 200, the body is not JSON, or an entry lacks its title or url    *)
FailedResponse(response) ==
  \/ response.raises
  \/ response.status_code # 200
  \/ ~response.body.json
  \/ \E i \in 1..Len(response.body.data) :
       {"title", "url"} \ (DOMAIN response.body.data[i]) # {}

(* C26: a fetch_day_data whose date has no data (404) or whose request     *)
(* fails returns an empty list, does not raise and records nothing in the  *)
(* per-date cache; the per-date cache holds only days that were fetched    *)
(* successfully, and no call of fetch_day_data raises.                     *)
C26_FailedDayNotRecorded ==
  /\ (ev.op = "day_response" /\ FailedResponse(ev.response)) =>
       (~ev.outcome.raised /\ ev.outcome.value = <<>> /\ ~ev.recorded)
  /\ ev.op = "fetch_day_data" => ~ev.outcome.raised
  /\ \A date \in DOMAIN archive._cache :
       ~FailedResponse([raises |-> FALSE, status_code |-> 200,
                        body |-> JsonBody(archive._cache[date])])


(* the keywords and heats of a list of items, without the time of fetching *)
Content(items) ==
  [i \in 1..Len(items) |-> <<items[i].keyword, items[i].raw_heat_score>>]

(* C27: over adapters with fixed output, a fetch_single_platform(p, L)     *)
(* served from the cache returns the items that the same call with         *)
(* use_cache=False returns, the first L entries of the platform's list,    *)
(* whatever limit the call that filled the cache had.                      *)
C27_HitEqualsFetch ==
  (ev.op = "call" /\ ev.direct /\ ev.calls[1].served = "hit") =>
    Content(ev.calls[1].result)
      = Content(fetch_trending(source[ev.calls[1].platform], ev.calls[1].limit, now))


(* C28: at all times the platforms with a cached payload are the platforms *)
(* with a cached capture time, and all of them are registered; a           *)
(* clear_cache(p) removes p's entry and leaves every other entry as it     *)
(* was, and a clear_cache() leaves no entry.                               *)
C28_CacheKeysAgree ==
  /\ [](/\ DOMAIN _cache = DOMAIN _cache_time
        /\ DOMAIN _cache \subseteq Range(fetchers))
  /\ [][ev'.op = "clear_cache" =>
          IF ev'.platform = ""
          THEN DOMAIN _cache' = {} /\ DOMAIN _cache_time' = {}
          ELSE /\ DOMAIN _cache' = (DOMAIN _cache) \ {ev'.platform}
               /\ DOMAIN _cache_time' = (DOMAIN _cache_time) \ {ev'.platform}
               /\ \A platform \in DOMAIN _cache' :
                    /\ _cache'[platform] = _cache[platform]
                    /\ _cache_time'[platform] = _cache_time[platform]]_vars

C28_Witness ==
  /\ ev.op = "clear_cache"
  /\ ev.platform = "weibo"
  /\ Range(fetchers) = Platforms
  /\ DOMAIN _cache = {"zhihu"}
  /\ DOMAIN _cache_time = {"zhihu"}
  /\ \E t \in 1..MaxTasks : tasks[t].pc = "awaiting" /\ tasks[t].platform = "weibo"


(* the place of a phase in the order birth, rise, peak, decline, death *)
PhaseRank(phase) ==
  CASE phase = "birth" -> 1
    [] phase = "rise" -> 2
    [] phase = "peak" -> 3
    [] phase = "decline" -> 4
    [] phase = "death" -> 5

(* C29: read in ascending date order, the phase labels of the lifecycle    *)
(* output never go backwards in the order birth, rise, peak, decline,      *)
(* death: the birth points are a prefix, the death points a suffix and no  *)
(* rise point comes after a peak, decline or death point.                  *)
C29_PhasesNeverGoBack ==
  ev.op = "get_keyword_lifecycle" =>
    LET points == ev.returned.data_points
    IN /\ \A k \in 1..(Len(points) - 1) :
            /\ points[k].timestamp < points[k + 1].timestamp
            /\ PhaseRank(points[k].phase) <= PhaseRank(points[k + 1].phase)
       /\ \A j, k \in 1..Len(points) :
            (j < k /\ points[k].phase = "birth") => points[j].phase = "birth"
       /\ \A j, k \in 1..Len(points) :
            (j < k /\ points[j].phase = "death") => points[k].phase = "death"
       /\ \A j, k \in 1..Len(points) :
            (j < k /\ points[j].phase \in {"peak", "decline", "death"})
              => points[k].phase # "rise"

C29_Witness ==
  /\ ev.op = "get_keyword_lifecycle"
  /\ {ev.returned.data_points[k].phase : k \in 1..Len(ev.returned.data_points)}
       = {"birth", "rise", "peak", "decline", "death"}
  /\ ev.lifecycle_raw[1][1] > ev.lifecycle_raw[2][1]


(* C30: a fetch_single_platform for a platform that is not registered      *)
(* raises ValueError, starts no adapter call and leaves the cache as it    *)
(* was; a fetch_all_platforms calls fetch_single_platform once for each    *)
(* platform registered when it is called, and returns exactly one entry    *)
(* for each of them, in the order of registration.                         *)
C30_UnregisteredRejectedAllCovered ==
  /\ [][(ev'.op = "call" /\ ev'.direct
           /\ ev'.calls[1].platform \notin Range(fetchers))
        => (/\ ev'.calls[1].served = "value_error"
            /\ tasks' = tasks
            /\ _cache' = _cache
            /\ _cache_time' = _cache_time)]_vars
  /\ [][(ev'.op = "call" /\ ~ev'.direct)
        => (/\ cycle'.platforms = fetchers
            /\ Len(ev'.calls) = Len(fetchers)
            /\ \A i \in 1..Len(fetchers) :
                 /\ ev'.calls[i].platform = fetchers[i]
                 /\ ev'.calls[i].served # "value_error")]_vars
  /\ [](ev.op = "merged" =>
          /\ Len(ev.all_data) = Len(ev.platforms)
          /\ Cardinality(Range(ev.platforms)) = Len(ev.platforms)
          /\ \A i \in 1..Len(ev.platforms) : ev.all_data[i][1] = ev.platforms[i])

C30_Witness ==
  /\ ev.op = "call"
  /\ ev.direct
  /\ ev.calls[1].served = "value_error"
  /\ ev.calls[1].platform = "zhihu"
  /\ fetchers = <<"weibo">>
  /\ "weibo" \in DOMAIN _cache
  /\ cycle.pc = "gathering"

====
